---------------------------- MODULE Spec2Model ----------------------------
(***************************************************************************)
(* A model of the document converter / text-insight service:              *)
(*   src/flask_app.py     the HTTP routes, the converter cache, the        *)
(*                        serializer                                       *)
(*   src/textprocessor.py the TextProcessor chat-completion wrapper        *)
(*   src/app.py           the Streamlit page: one script run per user      *)
(*                        interaction                                      *)
(*                                                                         *)
(* Strings the code inspects (filenames, format tags, form values, texts)  *)
(* are sequences of one-character strings, so that lower(), strip(),       *)
(* rsplit() and int() are computed as Python computes them.  Messages the   *)
(* code only builds and passes on are tuples <<fixed part, variable part>>. *)
(* The conversion library and the chat-completion backend are external:    *)
(* every call to them has an outcome chosen by the environment.            *)
(***************************************************************************)
EXTENDS Integers, Sequences, FiniteSets, TLC

VARIABLES
    converters,   \* flask_app._converters: the per-process converter cache
    req,          \* the request (or direct call) being answered, NoReq when idle
    resp,         \* its response (or the call's outcome)
    log,          \* the external effects of handling req, in order
    tpc,          \* per worker thread: position inside get_converter
    targ,         \* per worker thread: the use_ocr argument
    tret,         \* per worker thread: the converter returned
    writes,       \* per OCR flag: number of stores into _converters[flag]
    program,      \* the program that was started: "flask_app" or "app"
    session_state,\* app: st.session_state of the one browser session
    frontend,     \* app: what the page's widgets hold between script runs
    st_cache      \* app: the st.cache_resource store of get_converter

vars == <<converters, req, resp, log, tpc, targ, tret, writes,
          program, session_state, frontend, st_cache>>

-----------------------------------------------------------------------------
(* Bounds of the model *)

MaxNameLen == 3     \* generated filenames have at most this many characters
MaxTextLen == 2     \* generated texts have at most this many characters
MaxFiles == 3       \* files in one batch request
NumThreads == 2     \* worker threads calling get_converter concurrently

-----------------------------------------------------------------------------
(* Strings *)

RECURSIVE SeqsUpTo(_, _)
SeqsUpTo(S, n) ==
    IF n = 0 THEN {<<>>}
    ELSE LET shorter == SeqsUpTo(S, n - 1)
         IN  shorter \cup {Append(s, c) : s \in shorter, c \in S}

UpperLetters == <<"A","B","C","D","E","F","G","H","I","J","K","L","M",
                  "N","O","P","Q","R","S","T","U","V","W","X","Y","Z">>
LowerLetters == <<"a","b","c","d","e","f","g","h","i","j","k","l","m",
                  "n","o","p","q","r","s","t","u","v","w","x","y","z">>

LowerChar(c) ==
    IF \E i \in 1..26 : UpperLetters[i] = c
    THEN LowerLetters[CHOOSE i \in 1..26 : UpperLetters[i] = c]
    ELSE c

\* str.lower()
lower(s) == [i \in 1..Len(s) |-> LowerChar(s[i])]

Whitespace == {" ", "\n", "\t"}

\* str.strip(): leading and trailing whitespace removed
RECURSIVE lstrip(_)
lstrip(s) == IF s # <<>> /\ Head(s) \in Whitespace THEN lstrip(Tail(s)) ELSE s
RECURSIVE rstrip(_)
rstrip(s) ==
    IF s # <<>> /\ s[Len(s)] \in Whitespace
    THEN rstrip(SubSeq(s, 1, Len(s) - 1)) ELSE s
strip(s) == rstrip(lstrip(s))

\* "." in s
HasDot(s) == \E i \in 1..Len(s) : s[i] = "."
LastDot(s) ==
    CHOOSE i \in 1..Len(s) : s[i] = "." /\ \A j \in (i+1)..Len(s) : s[j] # "."
\* s.rsplit(".", 1)[-1] and s.rsplit(".", 1)[0]
rsplit_last(s) == IF HasDot(s) THEN SubSeq(s, LastDot(s) + 1, Len(s)) ELSE s
rsplit_first(s) == IF HasDot(s) THEN SubSeq(s, 1, LastDot(s) - 1) ELSE s

\* The value a form field, query argument or optional parameter has when it
\* is not supplied (it is no string: its one element is not a character).
Absent == <<"<absent>">>

\* Python's None where a string is expected
None == Absent

\* request.form.get(key, default)
form_get(v, default) == IF v = Absent THEN default ELSE v

Digits == <<"0","1","2","3","4","5","6","7","8","9">>
IsDigit(c) == \E i \in 1..10 : Digits[i] = c
DigitVal(c) == (CHOOSE i \in 1..10 : Digits[i] = c) - 1

\* int(s): of the strings over letters, digits and ".", exactly the non-empty
\* runs of decimal digits are accepted
IsIntLiteral(s) == s # <<>> /\ \A i \in 1..Len(s) : IsDigit(s[i])
RECURSIVE IntVal(_)
IntVal(s) ==
    IF s = <<>> THEN 0 ELSE 10 * IntVal(SubSeq(s, 1, Len(s) - 1)) + DigitVal(s[Len(s)])

\* float(s) accepts digits with at most one "." and at least one digit; the
\* value is kept in tenths (the first fractional digit), enough for 0.5, 0.7
IsFloatLiteral(s) ==
    /\ \A i \in 1..Len(s) : IsDigit(s[i]) \/ s[i] = "."
    /\ \E i \in 1..Len(s) : IsDigit(s[i])
    /\ Cardinality({i \in 1..Len(s) : s[i] = "."}) <= 1
FloatTenths(s) ==
    IF HasDot(s)
    THEN 10 * IntVal(rsplit_first(s))
         + (IF rsplit_last(s) = <<>> THEN 0 ELSE DigitVal(rsplit_last(s)[1]))
    ELSE 10 * IntVal(s)

-----------------------------------------------------------------------------
(* Outcomes of calls: a value returned or an exception raised *)

Return(v) == [kind |-> "return", value |-> v, exc |-> <<>>]
Raise(type, msg) == [kind |-> "raise", value |-> <<>>, exc |-> <<type, msg>>]
ExcType(o) == o.exc[1]
\* str(e)
ExcMsg(o) == o.exc[2]

\* Exception classes that "except ValueError" catches
ValueErrors == {"ValueError", "ValidationError"}

-----------------------------------------------------------------------------
(* flask_app.AppConfig *)

SUPPORTED_EXTENSIONS ==
    { <<"p","d","f">>, <<"d","o","c","x">>, <<"h","t","m","l">>, <<"h","t","m">>,
      <<"p","p","t","x">>, <<"p","n","g">>, <<"j","p","g">>, <<"j","p","e","g">>,
      <<"a","s","c","i","i","d","o","c">>, <<"m","d">> }

MARKDOWN == <<"m","a","r","k","d","o","w","n">>
JSON == <<"j","s","o","n">>
YAML == <<"y","a","m","l">>
OUTPUT_FORMATS == {MARKDOWN, JSON, YAML}

MAX_PAGES == 100
MAX_FILE_SIZE == 20971520


-----------------------------------------------------------------------------
(* Calls that leave the program, logged in order with what came back, while *)
(* a request is handled                                                     *)

Event(op, arg) == [op |-> op, arg |-> arg]
Count(l, op) == Cardinality({i \in DOMAIN l : l[i].op = op})
Args(l, op) == {l[i].arg : i \in {j \in DOMAIN l : l[j].op = op}}

-----------------------------------------------------------------------------
(* The conversion library (docling), as far as the code uses it *)

\* The converter built with table-structure inference left on
DocumentConverter_table_structure_on(do_ocr, do_table_structure, by) ==
    [do_ocr |-> do_ocr, do_table_structure |-> TRUE, obj |-> by]

\* DocumentConverter(...) built from PdfPipelineOptions(do_ocr, do_table_structure)
DocumentConverter(do_ocr, do_table_structure, by) ==
    [do_ocr |-> do_ocr, do_table_structure |-> do_table_structure, obj |-> by]

\* result.document: the two exports are all the code calls
Document(text) == [md |-> text, title |-> <<"d","o","c">>]
export_to_markdown(doc) == doc.md
export_to_dict(doc) == [name |-> doc.title, text |-> doc.md]

\* The character written as it is, without escaping
JsonChar_unescaped(c) == <<c>>

\* json.dumps escapes of the characters a text can hold
JsonChar(c) ==
    CASE c = "\n" -> <<"\\", "n">>
      [] c = "\t" -> <<"\\", "t">>
      [] c = "\"" -> <<"\\", "\"">>
      [] c = "\\" -> <<"\\", "\\">>
      [] OTHER    -> <<c>>
RECURSIVE JsonEscape(_)
JsonEscape(s) == IF s = <<>> THEN <<>> ELSE JsonChar(Head(s)) \o JsonEscape(Tail(s))
JsonString(s) == <<"\"">> \o JsonEscape(s) \o <<"\"">>

\* json.dumps(data, indent=2, default=str) of the exported tree
json_dumps(data) ==
    <<"{", "\n", " ", " ">> \o JsonString(<<"n","a","m","e">>) \o <<":", " ">>
        \o JsonString(data.name) \o <<",", "\n", " ", " ">>
        \o JsonString(<<"t","e","x","t">>) \o <<":", " ">>
        \o JsonString(data.text) \o <<"\n", "}">>

\* yaml.safe_dump writes a string scalar plain, single-quoted or
\* double-quoted, as the emitter's analysis of its characters allows.
YamlBlank == {" ", "\t"}
YamlSpace == {" ", "\t", "\n", "\r"}
YamlIndicators == {"#", ",", "[", "]", "{", "}", "&", "*", "!", "|", ">", "'", "\"", "%", "@"}

\* A plain scalar that the resolver reads as something else than a string
\* (the empty scalar and the null and boolean words, here in lower case, and
\* the integers) is never written plain, and is no string when loaded
YamlKeywords ==
    { <<"~">>, <<"n","u","l","l">>, <<"t","r","u","e">>, <<"f","a","l","s","e">>,
      <<"y","e","s">>, <<"n","o">>, <<"o","n">>, <<"o","f","f">> }
ResolvesToStr(s) == s # <<>> /\ s \notin YamlKeywords /\ ~IsIntLiteral(s)

\* The character after position i is white space, or there is none
FollowedBySpace(s, i) == i = Len(s) \/ s[i + 1] \in YamlSpace

\* The scalar holds an indicator where a plain scalar of a block mapping
\* value may not have one
BlockIndicators(s) ==
    \/ Len(s) >= 3 /\ SubSeq(s, 1, 3) \in { <<"-","-","-">>, <<".",".",".">> }
    \/ s[1] \in YamlIndicators
    \/ s[1] \in {"?", ":", "-"} /\ FollowedBySpace(s, 1)
    \/ \E i \in 2..Len(s) :
          \/ s[i] = ":" /\ FollowedBySpace(s, i)
          \/ s[i] = "#" /\ s[i - 1] \in YamlSpace

LineBreaks(s) == \E i \in 1..Len(s) : s[i] = "\n"
\* A character outside the printable ASCII range other than the line feed
SpecialCharacters(s) == \E i \in 1..Len(s) : s[i] \in {"\t", "\r"}
SpaceBreak(s) == \E i \in 1..(Len(s) - 1) : s[i] = " " /\ s[i + 1] = "\n"
BreakSpace(s) == \E i \in 1..(Len(s) - 1) : s[i] = "\n" /\ s[i + 1] = " "

YamlPlain(s) ==
    /\ ResolvesToStr(s)
    /\ s[1] \notin {" ", "\n"} /\ s[Len(s)] \notin {" ", "\n"}
    /\ ~LineBreaks(s) /\ ~SpecialCharacters(s)
    /\ ~BlockIndicators(s)
YamlSingleQuoted(s) == ~SpaceBreak(s) /\ ~BreakSpace(s) /\ ~SpecialCharacters(s)

\* Single-quoted: a quote is doubled; a run of n line feeds is written as
\* n + 1 line feeds followed by the indentation of the value (two blanks)
RECURSIVE YamlSingleBody(_, _)
YamlSingleBody(s, afterBreak) ==
    IF s = <<>> THEN IF afterBreak THEN <<" ", " ">> ELSE <<>>
    ELSE IF Head(s) = "\n"
    THEN (IF afterBreak THEN <<"\n">> ELSE <<"\n", "\n">>) \o YamlSingleBody(Tail(s), TRUE)
    ELSE (IF afterBreak THEN <<" ", " ">> ELSE <<>>)
         \o (IF Head(s) = "'" THEN <<"'", "'">> ELSE <<Head(s)>>)
         \o YamlSingleBody(Tail(s), FALSE)

\* Double-quoted: the quote, the backslash and the non-printable characters
\* are escaped
YamlEscapeChar(c) ==
    CASE c = "\n" -> <<"\\", "n">>
      [] c = "\t" -> <<"\\", "t">>
      [] c = "\r" -> <<"\\", "r">>
      [] c = "\"" -> <<"\\", "\"">>
      [] c = "\\" -> <<"\\", "\\">>
      [] OTHER    -> <<c>>
RECURSIVE YamlEscape(_)
YamlEscape(s) == IF s = <<>> THEN <<>> ELSE YamlEscapeChar(Head(s)) \o YamlEscape(Tail(s))

\* The scalar of a mapping value as the emitter writes it
YamlScalar(s) ==
    IF s # <<>> /\ YamlPlain(s) THEN s
    ELSE IF YamlSingleQuoted(s) THEN <<"'">> \o YamlSingleBody(s, FALSE) \o <<"'">>
    ELSE <<"\"">> \o YamlEscape(s) \o <<"\"">>

\* yaml.safe_dump(data, default_flow_style=False): block style, keys sorted
yaml_safe_dump(data) ==
    <<"n","a","m","e",":"," ">> \o YamlScalar(data.name) \o <<"\n">>
        \o <<"t","e","x","t",":"," ">> \o YamlScalar(data.text) \o <<"\n">>

-----------------------------------------------------------------------------
(* The decoders json.loads and yaml.safe_load, for the documents the two   *)
(* encoders above write: a flat mapping from string keys to strings         *)

\* What a decoder gives when the text is no such document
Undecodable == [name |-> Absent, text |-> Absent]
Scanned(ok, value, next) == [ok |-> ok, value |-> value, next |-> next]

\* The key-value tree of the decoded pairs
TreeOf(pairs) ==
    IF Len(pairs) = 2 /\ {pairs[1][1], pairs[2][1]} = { <<"n","a","m","e">>, <<"t","e","x","t">> }
    THEN [name |-> pairs[CHOOSE i \in 1..2 : pairs[i][1] = <<"n","a","m","e">>][2],
          text |-> pairs[CHOOSE i \in 1..2 : pairs[i][1] = <<"t","e","x","t">>][2]]
    ELSE Undecodable

RECURSIVE SkipWs(_, _)
SkipWs(s, i) == IF i <= Len(s) /\ s[i] \in YamlSpace THEN SkipWs(s, i + 1) ELSE i

JsonEscapes == {"n", "t", "r", "\"", "\\", "/"}
JsonUnescapeChar(c) ==
    CASE c = "n" -> "\n"
      [] c = "t" -> "\t"
      [] c = "r" -> "\r"
      [] OTHER   -> c

\* A JSON string from the character after its opening quote: escapes are
\* decoded, a raw control character is an error
RECURSIVE JsonScanString(_, _, _)
JsonScanString(s, i, acc) ==
    IF i > Len(s) THEN Scanned(FALSE, acc, i)
    ELSE IF s[i] = "\"" THEN Scanned(TRUE, acc, i + 1)
    ELSE IF s[i] = "\\"
    THEN IF i + 1 <= Len(s) /\ s[i + 1] \in JsonEscapes
         THEN JsonScanString(s, i + 2, Append(acc, JsonUnescapeChar(s[i + 1])))
         ELSE Scanned(FALSE, acc, i)
    ELSE IF s[i] \in {"\n", "\t", "\r"} THEN Scanned(FALSE, acc, i)
    ELSE JsonScanString(s, i + 1, Append(acc, s[i]))

JsonParseString(s, i) ==
    IF i <= Len(s) /\ s[i] = "\"" THEN JsonScanString(s, i + 1, <<>>)
    ELSE Scanned(FALSE, <<>>, i)

\* The members "key": "value" of an object, up to its closing brace
RECURSIVE JsonMembers(_, _, _)
JsonMembers(s, i, acc) ==
    LET k == JsonParseString(s, SkipWs(s, i))
        c == SkipWs(s, k.next)
        v == JsonParseString(s, SkipWs(s, c + 1))
        e == SkipWs(s, v.next)
    IN  IF ~k.ok \/ c > Len(s) THEN Scanned(FALSE, acc, i)
        ELSE IF s[c] # ":" \/ ~v.ok \/ e > Len(s) THEN Scanned(FALSE, acc, i)
        ELSE IF s[e] = "," THEN JsonMembers(s, e + 1, Append(acc, <<k.value, v.value>>))
        ELSE IF s[e] = "}"
        THEN Scanned(SkipWs(s, e + 1) > Len(s), Append(acc, <<k.value, v.value>>), e + 1)
        ELSE Scanned(FALSE, acc, i)

\* json.loads(text)
json_loads(s) ==
    LET i == SkipWs(s, 1)
    IN  IF i <= Len(s) /\ s[i] = "{"
        THEN LET m == JsonMembers(s, i + 1, <<>>)
             IN  IF m.ok THEN TreeOf(m.value) ELSE Undecodable
        ELSE Undecodable

RECURSIVE SkipBlanks(_, _)
SkipBlanks(s, i) == IF i <= Len(s) /\ s[i] \in YamlBlank THEN SkipBlanks(s, i + 1) ELSE i

\* Line folding inside a quoted scalar, from the character after a line
\* feed: the blanks that indent the next line are skipped and further line
\* feeds counted
RECURSIVE MoreBreaks(_, _, _)
MoreBreaks(s, i, k) ==
    LET p == SkipBlanks(s, i)
    IN  IF p <= Len(s) /\ s[p] = "\n" THEN MoreBreaks(s, p + 1, k + 1)
        ELSE [count |-> k, next |-> p]
\* One line feed folds into a blank, 1 + k line feeds into k line feeds
Folded(k) == IF k = 0 THEN <<" ">> ELSE [i \in 1..k |-> "\n"]

\* White space inside a quoted scalar at position i: blanks before a line
\* feed are dropped and the line feed folded, other blanks are kept
QuotedSpace(s, i) ==
    LET j == SkipBlanks(s, i)
    IN  IF j <= Len(s) /\ s[j] = "\n"
        THEN LET m == MoreBreaks(s, j + 1, 0)
             IN  [value |-> Folded(m.count), next |-> m.next]
        ELSE [value |-> SubSeq(s, i, j - 1), next |-> j]

\* A single-quoted scalar from the character after its opening quote
RECURSIVE YamlScanSingle(_, _, _)
YamlScanSingle(s, i, acc) ==
    IF i > Len(s) THEN Scanned(FALSE, acc, i)
    ELSE IF s[i] = "'"
    THEN IF i + 1 <= Len(s) /\ s[i + 1] = "'"
         THEN YamlScanSingle(s, i + 2, Append(acc, "'"))
         ELSE Scanned(TRUE, acc, i + 1)
    ELSE IF s[i] \in YamlBlank \cup {"\n"}
    THEN LET q == QuotedSpace(s, i) IN YamlScanSingle(s, q.next, acc \o q.value)
    ELSE YamlScanSingle(s, i + 1, Append(acc, s[i]))

\* A double-quoted scalar from the character after its opening quote
RECURSIVE YamlScanDouble(_, _, _)
YamlScanDouble(s, i, acc) ==
    IF i > Len(s) THEN Scanned(FALSE, acc, i)
    ELSE IF s[i] = "\"" THEN Scanned(TRUE, acc, i + 1)
    ELSE IF s[i] = "\\"
    THEN IF i + 1 <= Len(s) /\ s[i + 1] \in JsonEscapes \cup {" "}
         THEN YamlScanDouble(s, i + 2, Append(acc, JsonUnescapeChar(s[i + 1])))
         ELSE Scanned(FALSE, acc, i)
    ELSE IF s[i] \in YamlBlank \cup {"\n"}
    THEN LET q == QuotedSpace(s, i) IN YamlScanDouble(s, q.next, acc \o q.value)
    ELSE YamlScanDouble(s, i + 1, Append(acc, s[i]))

\* A plain scalar from position i to the end of its line: it ends before a
\* comment (a "#" after white space) and before trailing blanks; a ":"
\* followed by white space inside it is an error
RECURSIVE YamlScanPlain(_, _, _)
YamlScanPlain(s, i, acc) ==
    IF i > Len(s) \/ s[i] = "\n" THEN Scanned(TRUE, acc, i)
    ELSE IF s[i] = ":" /\ FollowedBySpace(s, i) THEN Scanned(FALSE, acc, i)
    ELSE IF s[i] \in YamlBlank
    THEN LET j == SkipBlanks(s, i)
         IN  IF j > Len(s) \/ s[j] \in {"\n", "#"}
             THEN Scanned(TRUE, acc, CHOOSE e \in j..(Len(s) + 1) :
                                         /\ e > Len(s) \/ s[e] = "\n"
                                         /\ \A x \in j..(e - 1) : s[x] # "\n")
             ELSE YamlScanPlain(s, j, acc \o SubSeq(s, i, j - 1))
    ELSE YamlScanPlain(s, i + 1, Append(acc, s[i]))

\* The scalar of a block mapping value at position i; a plain scalar must
\* start with no indicator and is a string only if the resolver says so
YamlParseScalar(s, i) ==
    IF i > Len(s) THEN Scanned(FALSE, <<>>, i)
    ELSE IF s[i] = "'" THEN YamlScanSingle(s, i + 1, <<>>)
    ELSE IF s[i] = "\"" THEN YamlScanDouble(s, i + 1, <<>>)
    ELSE IF s[i] \in YamlIndicators \cup {"\n"} THEN Scanned(FALSE, <<>>, i)
    ELSE IF s[i] \in {"?", ":", "-"} /\ FollowedBySpace(s, i) THEN Scanned(FALSE, <<>>, i)
    ELSE LET p == YamlScanPlain(s, i, <<>>)
         IN  Scanned(p.ok /\ ResolvesToStr(p.value), p.value, p.next)

\* The key of a block mapping entry at position i: plain, up to ": "
RECURSIVE YamlScanKey(_, _, _)
YamlScanKey(s, i, acc) ==
    IF i + 1 > Len(s) \/ s[i] \in YamlSpace THEN Scanned(FALSE, acc, i)
    ELSE IF s[i] = ":" /\ s[i + 1] = " " THEN Scanned(acc # <<>>, acc, i + 2)
    ELSE YamlScanKey(s, i + 1, Append(acc, s[i]))

\* The entries "key: value" of a block mapping, one per line, from position i
RECURSIVE YamlEntries(_, _, _)
YamlEntries(s, i, acc) ==
    IF i > Len(s) THEN Scanned(acc # <<>>, acc, i)
    ELSE LET k == YamlScanKey(s, i, <<>>)
             v == YamlParseScalar(s, k.next)
         IN  IF ~k.ok THEN Scanned(FALSE, acc, i)
             ELSE IF ~v.ok \/ v.next > Len(s) THEN Scanned(FALSE, acc, i)
             ELSE IF s[v.next] # "\n" THEN Scanned(FALSE, acc, i)
             ELSE YamlEntries(s, v.next + 1, Append(acc, <<k.value, v.value>>))

\* yaml.safe_load(text)
yaml_safe_load(s) ==
    LET m == YamlEntries(s, 1, <<>>)
    IN  IF m.ok THEN TreeOf(m.value) ELSE Undecodable

-----------------------------------------------------------------------------
(* flask_app: the converter cache and the dispatcher *)

\* get_converter run without interruption: the cache after the call, the
\* converter returned, and whether this call stored a new entry
get_converter(cache, use_ocr) ==
    LET miss == use_ocr \notin DOMAIN cache
        c == IF miss
             THEN cache @@ (use_ocr :> DocumentConverter(use_ocr, FALSE, 0))
             ELSE cache
    IN  [cache |-> c, converter |-> c[use_ocr], stored |-> miss]

\* convert_document calling converter.convert a second time when it raised
convert_document_retry(cache, filename, use_ocr, lib) ==
    LET g == get_converter(cache, use_ocr)
        call == Event("convert", [converter |-> g.converter, name |-> filename,
                                  max_num_pages |-> MAX_PAGES,
                                  max_file_size |-> MAX_FILE_SIZE,
                                  outcome |-> lib])
    IN  [cache |-> g.cache,
         stored |-> IF g.stored THEN {use_ocr} ELSE {},
         log |-> IF lib.kind = "raise"
                 THEN << Event("get_converter", <<use_ocr>>), call, call >>
                 ELSE << Event("get_converter", <<use_ocr>>), call >>,
         outcome |-> lib]

\* convert_document(file_bytes, filename, use_ocr); lib is what
\* converter.convert does with this stream: Return(document) or Raise(...)
convert_document(cache, filename, use_ocr, lib) ==
    LET g == get_converter(cache, use_ocr)
    IN  [cache |-> g.cache,
         stored |-> IF g.stored THEN {use_ocr} ELSE {},
         log |-> << Event("get_converter", <<use_ocr>>),
                    Event("convert", [converter |-> g.converter, name |-> filename,
                                      max_num_pages |-> MAX_PAGES,
                                      max_file_size |-> MAX_FILE_SIZE,
                                      outcome |-> lib]) >>,
         outcome |-> lib]

\* format_output comparing the tag as given, without .lower()
format_output_case_sensitive(doc, output_format) ==
    IF output_format = MARKDOWN
    THEN Return(<<export_to_markdown(doc), "text/markdown", <<"m","d">> >>)
    ELSE IF output_format = JSON
    THEN Return(<<json_dumps(export_to_dict(doc)), "application/json", JSON>>)
    ELSE IF output_format = YAML
    THEN Return(<<yaml_safe_dump(export_to_dict(doc)), "text/yaml", YAML>>)
    ELSE Raise("ValueError", <<"Unsupported output format: ", output_format>>)

\* format_output with the MIME types of the two tree formats exchanged
format_output_mimetypes_exchanged(doc, output_format) ==
    LET fmt == lower(output_format)
    IN  IF fmt = MARKDOWN
        THEN Return(<<export_to_markdown(doc), "text/markdown", <<"m","d">> >>)
        ELSE IF fmt = JSON
        THEN Return(<<json_dumps(export_to_dict(doc)), "text/yaml", JSON>>)
        ELSE IF fmt = YAML
        THEN Return(<<yaml_safe_dump(export_to_dict(doc)), "application/json", YAML>>)
        ELSE Raise("ValueError", <<"Unsupported output format: ", fmt>>)

\* format_output(result, output_format) -> (content, mimetype, extension)
format_output(doc, output_format) ==
    LET fmt == lower(output_format)
    IN  IF fmt = MARKDOWN
        THEN Return(<<export_to_markdown(doc), "text/markdown", <<"m","d">> >>)
        ELSE IF fmt = JSON
        THEN Return(<<json_dumps(export_to_dict(doc)), "application/json", JSON>>)
        ELSE IF fmt = YAML
        THEN Return(<<yaml_safe_dump(export_to_dict(doc)), "text/yaml", YAML>>)
        ELSE Raise("ValueError", <<"Unsupported output format: ", fmt>>)


-----------------------------------------------------------------------------
(* textprocessor.TextProcessor *)

\* Python truthiness of an Optional[str]: None and "" are falsy
Truthy(v) == v # Absent /\ v # <<>>
\* f"{v}": None is formatted as the text None
FStr(v) == IF v = Absent THEN <<"N","o","n","e">> ELSE v

\* Python's "a or b" on Optional[str] values
Or(a, b) == IF Truthy(a) THEN a ELSE b
\* os.getenv(name) and os.getenv(name, default); an unset variable is Absent
getenv(value, default) == IF value = Absent THEN default ELSE value

NOT_NEEDED == <<"n","o","t","-","n","e","e","d","e","d">>
DEFAULT_BASE_URL == << "http://localhost:8080/v1" >>
DEFAULT_MODEL == << "docker.io/granite-4.0-nano:350M-BF16" >>

\* The constructor taking the argument and the variable when they are not
\* None, empty or not
TextProcessor_init_none_checked(api_key, model, base_url, environ) ==
    LET key == IF api_key # Absent THEN api_key
               ELSE IF environ.OPENAI_API_KEY # Absent THEN environ.OPENAI_API_KEY
               ELSE NOT_NEEDED
        url == Or(base_url, getenv(environ.MODEL_RUNNER_URL, DEFAULT_BASE_URL))
    IN  [log |-> << Event("OpenAI", [api_key |-> key, base_url |-> url]) >>,
         outcome |-> Return([api_key |-> key, base_url |-> url, model |-> model])]

\* TextProcessor.__init__(api_key, model, base_url): the attributes of the
\* new object, and the OpenAI(api_key, base_url) client it builds
TextProcessor_init(api_key, model, base_url, environ) ==
    LET key == Or(api_key, Or(getenv(environ.OPENAI_API_KEY, None), NOT_NEEDED))
        url == Or(base_url, getenv(environ.MODEL_RUNNER_URL, DEFAULT_BASE_URL))
    IN  [log |-> << Event("OpenAI", [api_key |-> key, base_url |-> url]) >>,
         outcome |-> Return([api_key |-> key, base_url |-> url, model |-> model])]

DEFAULT_SYSTEM_PROMPT ==
    << "You are a professional summarization assistant. Provide clear, concise, and accurate summaries of the given text. Capture the key points, main ideas, and important details." >>
SUMMARIZE_PREFIX == "Please summarize the following text:\n\n"
ANALYSIS_SYSTEM_PROMPT == << "You are a helpful text analysis assistant." >>

Message(role, content) == [role |-> role, content |-> content]

\* self.client.chat.completions.create(model, messages, max_tokens, temperature)
\* and its outcome be
ChatCall(messages, max_tokens, temperature, be) ==
    Event("chat", [messages |-> messages, max_tokens |-> max_tokens,
                   temperature |-> temperature, outcome |-> be])

\* The first exception raised while the result dict is built from a response:
\* response.choices[0] on an empty list, response.usage.<field> on None
ResponseFault(response) ==
    IF response.choices = <<>>
    THEN <<"IndexError", <<"list index out of range">> >>
    ELSE IF ~response.usage.present
    THEN <<"AttributeError", <<"'NoneType' object has no attribute 'prompt_tokens'">> >>
    ELSE <<>>

\* tokens_used with the total recomputed instead of copied
tokens_used_recomputed(response) ==
    [prompt |-> response.usage.prompt_tokens,
     completion |-> response.usage.completion_tokens,
     total |-> response.usage.prompt_tokens + response.usage.completion_tokens]

tokens_used(response) ==
    [prompt |-> response.usage.prompt_tokens,
     completion |-> response.usage.completion_tokens,
     total |-> response.usage.total_tokens]

\* "except Exception as e" of the try block around the call and the dict:
\* whether backend outcome be ends in the handler, and str(e) there
Caught(be) == be.kind = "raise" \/ ResponseFault(be.value) # <<>>
CaughtMsg(be) == IF be.kind = "raise" THEN ExcMsg(be) ELSE ResponseFault(be.value)[2]

\* The result dict with the finish reason written as a constant
summarize_result_fixed_finish_reason(response) ==
    [summary |-> response.choices[1].content,
     model |-> response.model,
     tokens_used |-> tokens_used(response),
     finish_reason |-> "stop"]

\* return {"summary": ..., "model": ..., "tokens_used": {...}, "finish_reason": ...}
summarize_result(response) ==
    [summary |-> response.choices[1].content,
     model |-> response.model,
     tokens_used |-> tokens_used(response),
     finish_reason |-> response.choices[1].finish_reason]

\* The system prompt with the override ignored
summarize_system_prompt_ignoring_override(custom_prompt) == DEFAULT_SYSTEM_PROMPT

\* system_prompt = custom_prompt or (default)
summarize_system_prompt(custom_prompt) ==
    IF Truthy(custom_prompt) THEN custom_prompt ELSE DEFAULT_SYSTEM_PROMPT

\* The re-raise without str(e)
summarize_error_without_cause(message) ==
    Raise("RuntimeError", <<"Failed to generate summary: ", <<>> >>)

\* raise RuntimeError(f"Failed to generate summary: {str(e)}")
summarize_error(message) == Raise("RuntimeError", <<"Failed to generate summary: ", message>>)

\* summarize testing "if not text" only
summarize_no_strip(text, max_tokens, temperature, custom_prompt, be) ==
    IF text = <<>>
    THEN [log |-> <<>>,
          outcome |-> Raise("ValueError", <<"Text content cannot be empty">>)]
    ELSE [log |-> << ChatCall(<< Message("system", summarize_system_prompt(custom_prompt)),
                                 Message("user", <<SUMMARIZE_PREFIX, text>>) >>,
                              max_tokens, temperature, be) >>,
          outcome |-> IF Caught(be) THEN summarize_error(CaughtMsg(be))
                      ELSE Return(summarize_result(be.value))]

\* TextProcessor.summarize(text, max_tokens, temperature, custom_prompt);
\* be is the outcome of the chat-completion call, if one is made
summarize(text, max_tokens, temperature, custom_prompt, be) ==
    IF text = <<>> \/ strip(text) = <<>>
    THEN [log |-> <<>>,
          outcome |-> Raise("ValueError", <<"Text content cannot be empty">>)]
    ELSE LET system_prompt == summarize_system_prompt(custom_prompt)
         IN  [log |-> << ChatCall(<< Message("system", system_prompt),
                                     Message("user", <<SUMMARIZE_PREFIX, text>>) >>,
                                  max_tokens, temperature, be) >>,
              outcome |-> IF Caught(be)
                          THEN summarize_error(CaughtMsg(be))
                          ELSE Return(summarize_result(be.value))]

\* The result dict with the total summed from the two counts
key_points_result_summed_total(response) ==
    [key_points |-> response.choices[1].content,
     model |-> response.model,
     tokens_used |-> tokens_used_recomputed(response)]

\* return {"key_points": ..., "model": ..., "tokens_used": {...}}
key_points_result(response) ==
    [key_points |-> response.choices[1].content,
     model |-> response.model,
     tokens_used |-> tokens_used(response)]

\* extract_key_points passing the summarization default 0.7 as temperature
extract_key_points_default_temperature(text, num_points, max_tokens, be) ==
    LET system_prompt ==
            << "Extract the ", num_points,
               " most important key points from the text. Return them as a numbered list. Be concise and specific." >>
    IN  [log |-> << ChatCall(<< Message("system", system_prompt),
                                Message("user", text) >>,
                             max_tokens, 7, be) >>,
         outcome |-> IF Caught(be)
                     THEN Raise("RuntimeError",
                                <<"Failed to extract key points: ", CaughtMsg(be)>>)
                     ELSE Return(key_points_result(be.value))]

\* TextProcessor.extract_key_points(text, num_points, max_tokens)
extract_key_points(text, num_points, max_tokens, be) ==
    LET system_prompt ==
            << "Extract the ", num_points,
               " most important key points from the text. Return them as a numbered list. Be concise and specific." >>
    IN  [log |-> << ChatCall(<< Message("system", system_prompt),
                                Message("user", text) >>,
                             max_tokens, 5, be) >>,
         outcome |-> IF Caught(be)
                     THEN Raise("RuntimeError",
                                <<"Failed to extract key points: ", CaughtMsg(be)>>)
                     ELSE Return(key_points_result(be.value))]

analysis_result(response) ==
    [result |-> response.choices[1].content,
     model |-> response.model,
     tokens_used |-> tokens_used(response)]

\* custom_analysis refusing a blank text the way summarize does
custom_analysis_blank_checked(text, instruction, max_tokens, temperature, be) ==
    IF text = <<>> \/ strip(text) = <<>>
    THEN [log |-> <<>>,
          outcome |-> Raise("ValueError", <<"Text content cannot be empty">>)]
    ELSE [log |-> << ChatCall(<< Message("system", ANALYSIS_SYSTEM_PROMPT),
                                 Message("user", <<FStr(instruction), "\n\nText:\n", text>>) >>,
                              max_tokens, temperature, be) >>,
          outcome |-> IF Caught(be)
                      THEN Raise("RuntimeError",
                                 <<"Failed to perform custom analysis: ", CaughtMsg(be)>>)
                      ELSE Return(analysis_result(be.value))]

\* TextProcessor.custom_analysis(text, instruction, max_tokens, temperature)
custom_analysis(text, instruction, max_tokens, temperature, be) ==
    [log |-> << ChatCall(<< Message("system", ANALYSIS_SYSTEM_PROMPT),
                            Message("user", <<FStr(instruction), "\n\nText:\n", text>>) >>,
                         max_tokens, temperature, be) >>,
     outcome |-> IF Caught(be)
                 THEN Raise("RuntimeError",
                            <<"Failed to perform custom analysis: ", CaughtMsg(be)>>)
                 ELSE Return(analysis_result(be.value))]


-----------------------------------------------------------------------------
(* flask_app: requests and responses *)

\* request.files["file"] when the part is missing
NoFile == [filename |-> Absent]

\* jsonify({"error": message}), status
ErrorResponse(status, message) == [status |-> status, kind |-> "error", body |-> message]
\* jsonify({...}) with the default status
JsonResponse(body) == [status |-> 200, kind |-> "json", body |-> body]
\* send_file(buf, mimetype, as_attachment=True, download_name)
FileResponse(body) == [status |-> 200, kind |-> "file", body |-> body]
\* An exception that leaves the view function: Flask answers 500
Unhandled(exc) == [status |-> 500, kind |-> "unhandled", body |-> exc]

\* What a handler did: the cache after it, the flags it stored, the effects
Handled(cache, stored, l, response) ==
    [cache |-> cache, stored |-> stored, log |-> l, resp |-> response]

\* ext = filename.rsplit(".", 1)[-1].lower() if "." in filename else ""
file_ext(filename) == IF HasDot(filename) THEN lower(rsplit_last(filename)) ELSE <<>>

\* request.form.get("use_ocr", "true").lower() in ("true", "1", "yes")
parse_use_ocr(v) ==
    lower(form_get(v, <<"t","r","u","e">>))
        \in { <<"t","r","u","e">>, <<"1">>, <<"y","e","s">> }

\* request.args.get("inline", "false").lower() in ("true", "1")
parse_inline(v) ==
    lower(form_get(v, <<"f","a","l","s","e">>)) \in { <<"t","r","u","e">>, <<"1">> }

\* int(request.form.get(key, default))
parse_int(v, default) ==
    IF v = Absent THEN Return(default)
    ELSE IF IsIntLiteral(v) THEN Return(IntVal(v))
    ELSE Raise("ValueError", <<"invalid literal for int() with base 10: ", v>>)

\* float(request.form.get(key, default)), in tenths
parse_float(v, default) ==
    IF v = Absent THEN Return(default)
    ELSE IF IsFloatLiteral(v) THEN Return(FloatTenths(v))
    ELSE Raise("ValueError", <<"could not convert string to float: ", v>>)

\* f"{filename.rsplit('.', 1)[0]}.{out_ext}"
out_filename(filename, out_ext) == <<rsplit_first(filename), ".", out_ext>>

\* upload_error without the extension check
upload_error_any_extension(r) ==
    IF r.file = NoFile THEN ErrorResponse(400, <<"No file provided">>)
    ELSE IF r.file.filename = <<>> THEN ErrorResponse(400, <<"Empty filename">>)
    ELSE [status |-> 0, kind |-> "none", body |-> <<>>]

\* The upload checks every single-file route starts with: the part is there,
\* its filename is not empty, its extension is supported
NoError == [status |-> 0, kind |-> "none", body |-> <<>>]
upload_error(r) ==
    IF r.file = NoFile THEN ErrorResponse(400, <<"No file provided">>)
    ELSE IF r.file.filename = <<>> THEN ErrorResponse(400, <<"Empty filename">>)
    ELSE IF file_ext(r.file.filename) \notin SUPPORTED_EXTENSIONS
    THEN ErrorResponse(400, <<"Unsupported file type: .", file_ext(r.file.filename)>>)
    ELSE NoError

\* api_convert fetching the converter before it validates the request
api_convert_eager_converter(cache, r, lib) ==
    IF upload_error(r) # NoError
    THEN LET use_ocr == parse_use_ocr(r.use_ocr)
             gc == get_converter(cache, use_ocr)
         IN  Handled(gc.cache, IF gc.stored THEN {use_ocr} ELSE {}, <<>>, upload_error(r))
    ELSE IF lower(form_get(r.output_format, MARKDOWN)) \notin OUTPUT_FORMATS
    THEN Handled(cache, {}, <<>>,
                 ErrorResponse(400, <<"Unsupported output format: ",
                                      lower(form_get(r.output_format, MARKDOWN))>>))
    ELSE LET output_format == lower(form_get(r.output_format, MARKDOWN))
             use_ocr == parse_use_ocr(r.use_ocr)
             cd == convert_document(cache, r.file.filename, use_ocr, lib)
             l == <<Event("read", r.file.filename)>> \o cd.log
         IN  IF cd.outcome.kind = "raise"
             THEN Handled(cd.cache, cd.stored, l, ErrorResponse(500, ExcMsg(cd.outcome)))
             ELSE LET fo == format_output(cd.outcome.value, output_format)
                  IN  IF fo.kind = "raise"
                      THEN Handled(cd.cache, cd.stored, l, ErrorResponse(500, ExcMsg(fo)))
                      ELSE IF parse_inline(r.inline)
                      THEN Handled(cd.cache, cd.stored, l,
                               JsonResponse([filename |-> out_filename(r.file.filename, fo.value[3]),
                                             format |-> output_format,
                                             content |-> fo.value[1]]))
                      ELSE Handled(cd.cache, cd.stored, l,
                               FileResponse([content |-> fo.value[1],
                                             mimetype |-> fo.value[2],
                                             download_name |-> out_filename(r.file.filename, fo.value[3])]))

\* /api/convert
api_convert(cache, r, lib) ==
    IF upload_error(r) # NoError THEN Handled(cache, {}, <<>>, upload_error(r))
    ELSE IF lower(form_get(r.output_format, MARKDOWN)) \notin OUTPUT_FORMATS
    THEN Handled(cache, {}, <<>>,
                 ErrorResponse(400, <<"Unsupported output format: ",
                                      lower(form_get(r.output_format, MARKDOWN))>>))
    ELSE LET output_format == lower(form_get(r.output_format, MARKDOWN))
             use_ocr == parse_use_ocr(r.use_ocr)
             cd == convert_document(cache, r.file.filename, use_ocr, lib)
             l == <<Event("read", r.file.filename)>> \o cd.log
         IN  IF cd.outcome.kind = "raise"
             THEN Handled(cd.cache, cd.stored, l, ErrorResponse(500, ExcMsg(cd.outcome)))
             ELSE LET fo == format_output(cd.outcome.value, output_format)
                  IN  IF fo.kind = "raise"
                      THEN Handled(cd.cache, cd.stored, l, ErrorResponse(500, ExcMsg(fo)))
                      ELSE IF parse_inline(r.inline)
                      THEN Handled(cd.cache, cd.stored, l,
                               JsonResponse([filename |-> out_filename(r.file.filename, fo.value[3]),
                                             format |-> output_format,
                                             content |-> fo.value[1]]))
                      ELSE Handled(cd.cache, cd.stored, l,
                               FileResponse([content |-> fo.value[1],
                                             mimetype |-> fo.value[2],
                                             download_name |-> out_filename(r.file.filename, fo.value[3])]))

\* FailedEntry with a fixed message in place of the error's own
FailedEntry_fixed_message(filename, message) ==
    [original_filename |-> filename, success |-> FALSE, error |-> <<"Conversion failed">>,
     filename |-> Absent, format |-> Absent, content |-> Absent]

\* One entry of the batch results list
FailedEntry(filename, message) ==
    [original_filename |-> filename, success |-> FALSE, error |-> message,
     filename |-> Absent, format |-> Absent, content |-> Absent]
ConvertedEntry(filename, output_format, fo) ==
    [original_filename |-> filename, success |-> TRUE, error |-> Absent,
     filename |-> out_filename(filename, fo.value[3]), format |-> output_format,
     content |-> fo.value[1]]

\* The loop "for uploaded in files" of /api/convert/batch, from file i on;
\* libs[i] is what converter.convert does with file i
RECURSIVE batch_loop(_, _, _, _, _, _)
batch_loop(cache, files, libs, output_format, use_ocr, i) ==
    IF i > Len(files) THEN [cache |-> cache, stored |-> {}, log |-> <<>>, results |-> <<>>]
    ELSE LET name == files[i].filename IN
         IF name = <<>>
         THEN batch_loop(cache, files, libs, output_format, use_ocr, i + 1)
         ELSE IF file_ext(name) \notin SUPPORTED_EXTENSIONS
         THEN LET rest == batch_loop(cache, files, libs, output_format, use_ocr, i + 1)
              IN  [rest EXCEPT !.results =
                      <<FailedEntry(name, <<"Unsupported file type: .", file_ext(name)>>)>> \o @]
         ELSE LET cd == convert_document(cache, name, use_ocr, libs[i])
                  fo == format_output(cd.outcome.value, output_format)
                  entry == IF cd.outcome.kind = "raise"
                           THEN FailedEntry(name, ExcMsg(cd.outcome))
                           ELSE IF fo.kind = "raise"
                           THEN FailedEntry(name, ExcMsg(fo))
                           ELSE ConvertedEntry(name, output_format, fo)
                  rest == batch_loop(cd.cache, files, libs, output_format, use_ocr, i + 1)
              IN  [cache |-> rest.cache,
                   stored |-> cd.stored \cup rest.stored,
                   log |-> <<Event("read", name)>> \o cd.log \o rest.log,
                   results |-> <<entry>> \o rest.results]

\* /api/convert/batch
api_convert_batch(cache, r, libs) ==
    IF r.files = <<>> \/ \A i \in 1..Len(r.files) : r.files[i].filename = <<>>
    THEN Handled(cache, {}, <<>>, ErrorResponse(400, <<"No files provided">>))
    ELSE IF lower(form_get(r.output_format, MARKDOWN)) \notin OUTPUT_FORMATS
    THEN Handled(cache, {}, <<>>,
                 ErrorResponse(400, <<"Unsupported output format: ",
                                      lower(form_get(r.output_format, MARKDOWN))>>))
    ELSE LET b == batch_loop(cache, r.files, libs,
                             lower(form_get(r.output_format, MARKDOWN)),
                             parse_use_ocr(r.use_ocr), 1)
         IN  Handled(b.cache, b.stored, b.log,
                     JsonResponse([results |-> b.results, total |-> Len(b.results)]))


\* "Convert document to markdown": uploaded.read(), convert_document,
\* format_output(result, "markdown")
to_markdown(cache, filename, use_ocr, lib) ==
    LET cd == convert_document(cache, filename, use_ocr, lib)
    IN  [cache |-> cd.cache, stored |-> cd.stored,
         log |-> <<Event("read", filename)>> \o cd.log,
         outcome |-> IF cd.outcome.kind = "raise" THEN cd.outcome
                     ELSE LET fo == format_output(cd.outcome.value, MARKDOWN)
                          IN  IF fo.kind = "raise" THEN fo ELSE Return(fo.value[1])]

\* except ValueError as e: 400 "Configuration error: ..."; except Exception: 500
route_except(o) ==
    IF ExcType(o) \in ValueErrors
    THEN ErrorResponse(400, <<"Configuration error: ", ExcMsg(o)>>)
    ELSE ErrorResponse(500, ExcMsg(o))

\* /api/summarize
api_summarize(cache, r, lib, be) ==
    IF upload_error(r) # NoError THEN Handled(cache, {}, <<>>, upload_error(r))
    ELSE LET use_ocr == parse_use_ocr(r.use_ocr)
             max_tokens == parse_int(r.max_tokens, 500)
             temperature == parse_float(r.temperature, 7)
         IN  IF max_tokens.kind = "raise"
             THEN Handled(cache, {}, <<>>, Unhandled(max_tokens.exc))
             ELSE IF temperature.kind = "raise"
             THEN Handled(cache, {}, <<>>, Unhandled(temperature.exc))
             ELSE LET tm == to_markdown(cache, r.file.filename, use_ocr, lib) IN
                  IF tm.outcome.kind = "raise"
                  THEN Handled(tm.cache, tm.stored, tm.log, route_except(tm.outcome))
                  ELSE LET sm == summarize(tm.outcome.value, max_tokens.value,
                                           temperature.value, Absent, be)
                       IN  IF sm.outcome.kind = "raise"
                           THEN Handled(tm.cache, tm.stored, tm.log \o sm.log,
                                        route_except(sm.outcome))
                           ELSE Handled(tm.cache, tm.stored, tm.log \o sm.log,
                                    JsonResponse(
                                      [filename |-> r.file.filename,
                                       text_content |-> tm.outcome.value,
                                       summary |-> sm.outcome.value.summary,
                                       metadata |->
                                         [model |-> sm.outcome.value.model,
                                          tokens_used |-> sm.outcome.value.tokens_used,
                                          finish_reason |-> sm.outcome.value.finish_reason],
                                       success |-> TRUE]))

\* /api/summarize-text; r.json: request.get_json() is a non-empty object
api_summarize_text(cache, r, be) ==
    IF ~r.json \/ r.text = Absent
    THEN Handled(cache, {}, <<>>, ErrorResponse(400, <<"No text provided">>))
    ELSE IF strip(r.text) = <<>>
    THEN Handled(cache, {}, <<>>, ErrorResponse(400, <<"Text cannot be empty">>))
    ELSE LET max_tokens == parse_int(r.max_tokens, 500)
             temperature == parse_float(r.temperature, 7)
         IN  IF max_tokens.kind = "raise"
             THEN Handled(cache, {}, <<>>, Unhandled(max_tokens.exc))
             ELSE IF temperature.kind = "raise"
             THEN Handled(cache, {}, <<>>, Unhandled(temperature.exc))
             ELSE LET sm == summarize(strip(r.text), max_tokens.value,
                                      temperature.value, Absent, be)
                  IN  IF sm.outcome.kind = "raise"
                      THEN Handled(cache, {}, sm.log, route_except(sm.outcome))
                      ELSE Handled(cache, {}, sm.log,
                               JsonResponse(
                                 [summary |-> sm.outcome.value.summary,
                                  metadata |->
                                    [model |-> sm.outcome.value.model,
                                     tokens_used |-> sm.outcome.value.tokens_used,
                                     finish_reason |-> sm.outcome.value.finish_reason],
                                  success |-> TRUE]))

\* /api/extract-key-points
api_extract_key_points(cache, r, lib, be) ==
    IF upload_error(r) # NoError THEN Handled(cache, {}, <<>>, upload_error(r))
    ELSE LET use_ocr == parse_use_ocr(r.use_ocr)
             num_points == parse_int(r.num_points, 5)
         IN  IF num_points.kind = "raise"
             THEN Handled(cache, {}, <<>>, Unhandled(num_points.exc))
             ELSE LET tm == to_markdown(cache, r.file.filename, use_ocr, lib) IN
                  IF tm.outcome.kind = "raise"
                  THEN Handled(tm.cache, tm.stored, tm.log, route_except(tm.outcome))
                  ELSE LET kp == extract_key_points(tm.outcome.value, num_points.value,
                                                    300, be)
                       IN  IF kp.outcome.kind = "raise"
                           THEN Handled(tm.cache, tm.stored, tm.log \o kp.log,
                                        route_except(kp.outcome))
                           ELSE Handled(tm.cache, tm.stored, tm.log \o kp.log,
                                    JsonResponse(
                                      [filename |-> r.file.filename,
                                       text_content |-> tm.outcome.value,
                                       key_points |-> kp.outcome.value.key_points,
                                       metadata |->
                                         [model |-> kp.outcome.value.model,
                                          tokens_used |-> kp.outcome.value.tokens_used],
                                       success |-> TRUE]))

\* The route without the instruction check
instruction_error_unchecked(r) == [status |-> 0, kind |-> "none", body |-> <<>>]

\* if "instruction" not in request.form
instruction_error(r) ==
    IF r.instruction = Absent
    THEN ErrorResponse(400, <<"Analysis instruction is required">>)
    ELSE NoError

\* /api/analyze
api_analyze(cache, r, lib, be) ==
    IF r.file = NoFile
    THEN Handled(cache, {}, <<>>, ErrorResponse(400, <<"No file provided">>))
    ELSE IF instruction_error(r) # NoError
    THEN Handled(cache, {}, <<>>, instruction_error(r))
    ELSE IF upload_error(r) # NoError THEN Handled(cache, {}, <<>>, upload_error(r))
    ELSE LET use_ocr == parse_use_ocr(r.use_ocr)
             max_tokens == parse_int(r.max_tokens, 1000)
         IN  IF max_tokens.kind = "raise"
             THEN Handled(cache, {}, <<>>, Unhandled(max_tokens.exc))
             ELSE LET tm == to_markdown(cache, r.file.filename, use_ocr, lib) IN
                  IF tm.outcome.kind = "raise"
                  THEN Handled(tm.cache, tm.stored, tm.log, route_except(tm.outcome))
                  ELSE LET ca == custom_analysis(tm.outcome.value, r.instruction,
                                                 max_tokens.value, 7, be)
                       IN  IF ca.outcome.kind = "raise"
                           THEN Handled(tm.cache, tm.stored, tm.log \o ca.log,
                                        route_except(ca.outcome))
                           ELSE Handled(tm.cache, tm.stored, tm.log \o ca.log,
                                    JsonResponse(
                                      [filename |-> r.file.filename,
                                       instruction |-> r.instruction,
                                       text_content |-> tm.outcome.value,
                                       analysis |-> ca.outcome.value.result,
                                       metadata |->
                                         [model |-> ca.outcome.value.model,
                                          tokens_used |-> ca.outcome.value.tokens_used],
                                       success |-> TRUE]))


-----------------------------------------------------------------------------
(* app.py: the Streamlit page *)

\* None where a file or a conversion result is expected
NoUpload == [name |-> None]
NoResult == [md |-> None, title |-> None]

\* app.AppConfig.SUPPORTED_TYPES: the selectbox label and its extensions
SUPPORTED_TYPES ==
    [ft \in {"PDF", "Word Document", "HTML", "PowerPoint", "Image", "AsciiDoc", "Markdown"} |->
        CASE ft = "PDF"           -> { <<"p","d","f">> }
          [] ft = "Word Document" -> { <<"d","o","c","x">> }
          [] ft = "HTML"          -> { <<"h","t","m","l">>, <<"h","t","m">> }
          [] ft = "PowerPoint"    -> { <<"p","p","t","x">> }
          [] ft = "Image"         -> { <<"p","n","g">>, <<"j","p","g">>, <<"j","p","e","g">> }
          [] ft = "AsciiDoc"      -> { <<"a","s","c","i","i","d","o","c">> }
          [] ft = "Markdown"      -> { <<"m","d">> }]

\* app.AppConfig.OUTPUT_FORMATS: the options of the radio
APP_OUTPUT_FORMATS ==
    { <<"M","a","r","k","d","o","w","n">>, <<"J","S","O","N">>, <<"Y","A","M","L">> }

\* initialize_session_state(): a key that is missing is set to None
initialize_session_state(ss) ==
    [k \in DOMAIN ss \cup {"current_file", "conversion_result"} |->
        IF k \in DOMAIN ss THEN ss[k]
        ELSE IF k = "current_file" THEN NoUpload ELSE None]

\* json.dumps(content): one line, ", " and ": " as separators
json_dumps_compact(data) ==
    <<"{">> \o JsonString(<<"n","a","m","e">>) \o <<":", " ">> \o JsonString(data.name)
        \o <<",", " ">> \o JsonString(<<"t","e","x","t">>) \o <<":", " ">>
        \o JsonString(data.text) \o <<"}">>

\* file_name.endswith('.json'), file_name being f"{base}.{ext}"
endswith_json(file_name) == file_name[2] = "." /\ file_name[3] = JSON

\* get_binary_file_downloader_html(content, file_name, file_label); is_tree is
\* isinstance(content, (dict, list)).  The anchor is kept as its parts: the
\* data URI's media type, the bytes that are base64-encoded, the download
\* name and the label.
get_binary_file_downloader_html(content, is_tree, file_name, file_label) ==
    [mimetype |-> "application/octet-stream",
     encoding |-> "base64",
     data |-> IF is_tree
              THEN IF endswith_json(file_name) THEN json_dumps_compact(content)
                   ELSE yaml_safe_dump(content)
              ELSE content,
     download |-> file_name,
     label |-> file_label]

\* One element rendered on the page: st.error, st.success, st.markdown, ...
Element(call, arg) == [st |-> call, arg |-> arg]

\* DocumentProcessor.get_converter under @st.cache_resource: the function
\* body runs on a miss only, and the store holds what it returned
st_get_converter(cache, use_ocr) ==
    LET miss == use_ocr \notin DOMAIN cache
        c == IF miss
             THEN cache @@ (use_ocr :> DocumentConverter(use_ocr, FALSE, 0))
             ELSE cache
    IN  [cache |-> c, converter |-> c[use_ocr], stored |-> miss]

\* DocumentProcessor.process_document(file, settings, config); lib is what
\* converter.convert does with the stream
process_document(cache, file, settings, lib) ==
    LET g == st_get_converter(cache, settings.use_ocr)
    IN  [cache |-> g.cache,
         log |-> << Event("get_converter", <<settings.use_ocr>>),
                    Event("read", file.name),
                    Event("convert", [converter |-> g.converter, name |-> file.name,
                                      max_num_pages |-> MAX_PAGES,
                                      max_file_size |-> MAX_FILE_SIZE,
                                      outcome |-> lib]) >>,
         elements |-> IF lib.kind = "raise"
                      THEN << Element("error", <<"Error during conversion of ", file.name,
                                                 ": ", ExcMsg(lib)>>) >>
                      ELSE <<>>,
         result |-> IF lib.kind = "raise" THEN NoResult ELSE lib.value]

\* handle_conversion_output(result, settings, file): what it renders
handle_conversion_output(result, settings, file) ==
    IF result = NoResult THEN <<>>
    ELSE LET base_filename == rsplit_first(file.name)
             fmt == settings.output_format
             is_tree == fmt # <<"M","a","r","k","d","o","w","n">>
             output_content == IF is_tree THEN export_to_dict(result)
                               ELSE export_to_markdown(result)
             output_filename ==
                 IF fmt = <<"M","a","r","k","d","o","w","n">> THEN <<base_filename, ".", <<"m","d">> >>
                 ELSE IF fmt = <<"J","S","O","N">> THEN <<base_filename, ".", JSON>>
                 ELSE <<base_filename, ".", YAML>>
             preview == IF ~is_tree THEN Element("markdown", output_content)
                        ELSE IF fmt = <<"J","S","O","N">> THEN Element("json", output_content)
                        ELSE Element("code", yaml_safe_dump(output_content))
         IN  << Element("success", <<"Conversion completed successfully!">>),
                Element("markdown",
                        get_binary_file_downloader_html(
                            output_content, is_tree, output_filename,
                            <<"Download ", fmt, " File">>)),
                Element("subheader", <<"Preview">>),
                preview >>

\* The widget values a script run sees after the interaction that started it.
\* Choosing another file type gives the uploader another label and type list,
\* which makes it a new, empty widget.
Interact(fe, ev) ==
    CASE ev.kind = "select_type" ->
            [fe EXCEPT !.file_type = ev.file_type,
                       !.uploaded_file = IF ev.file_type = fe.file_type
                                         THEN fe.uploaded_file ELSE NoUpload]
      [] ev.kind = "upload" -> [fe EXCEPT !.uploaded_file = ev.file]
      [] ev.kind = "remove" -> [fe EXCEPT !.uploaded_file = NoUpload]
      [] OTHER -> fe

\* The page after a run: the Start button as it was drawn
\* (disabled=st.session_state.current_file is None), and whether the run
\* ended in st.rerun()
Rendered(w, disabled, rerun) ==
    [w EXCEPT !.start_disabled = disabled, !.rerun = rerun, !.rendered = TRUE]

\* main() converting in every run that has a current file, Start clicked or not
main_converts_without_start(ss, cache, fe, ev, settings, lib) ==
    LET w == Interact(fe, ev)
        ss1 == initialize_session_state(ss)
        \* if uploaded_file: st.session_state.current_file = uploaded_file
        ss2 == IF w.uploaded_file # NoUpload
               THEN [ss1 EXCEPT !.current_file = w.uploaded_file] ELSE ss1
        disabled == ss2.current_file = NoUpload
    IN  IF ev.kind = "clear"
        THEN \* the Clear branch ends the run with st.rerun()
             [session_state |-> [ss2 EXCEPT !.current_file = NoUpload,
                                            !.conversion_result = None],
              cache |-> cache,
              frontend |-> Rendered(w, disabled, TRUE),
              log |-> <<>>, elements |-> <<>>]
        ELSE IF ss2.current_file # NoUpload
        THEN LET pd == process_document(cache, ss2.current_file, settings, lib)
             IN  [session_state |-> ss2,
                  cache |-> pd.cache,
                  frontend |-> Rendered(w, disabled, FALSE),
                  log |-> pd.log,
                  elements |-> pd.elements
                      \o handle_conversion_output(pd.result, settings, ss2.current_file)]
        ELSE [session_state |-> ss2,
              cache |-> cache,
              frontend |-> Rendered(w, disabled, FALSE),
              log |-> <<>>, elements |-> <<>>]

\* main(): one script run.  ev is the interaction that started it, settings
\* the widget values render_main_content returns, lib what converter.convert
\* does if it is called.
main(ss, cache, fe, ev, settings, lib) ==
    LET w == Interact(fe, ev)
        ss1 == initialize_session_state(ss)
        \* if uploaded_file: st.session_state.current_file = uploaded_file
        ss2 == IF w.uploaded_file # NoUpload
               THEN [ss1 EXCEPT !.current_file = w.uploaded_file] ELSE ss1
        disabled == ss2.current_file = NoUpload
    IN  IF ev.kind = "clear"
        THEN \* the Clear branch ends the run with st.rerun()
             [session_state |-> [ss2 EXCEPT !.current_file = NoUpload,
                                            !.conversion_result = None],
              cache |-> cache,
              frontend |-> Rendered(w, disabled, TRUE),
              log |-> <<>>, elements |-> <<>>]
        ELSE IF settings.start_conversion /\ ss2.current_file # NoUpload
        THEN LET pd == process_document(cache, ss2.current_file, settings, lib)
             IN  [session_state |-> ss2,
                  cache |-> pd.cache,
                  frontend |-> Rendered(w, disabled, FALSE),
                  log |-> pd.log,
                  elements |-> pd.elements
                      \o handle_conversion_output(pd.result, settings, ss2.current_file)]
        ELSE [session_state |-> ss2,
              cache |-> cache,
              frontend |-> Rendered(w, disabled, FALSE),
              log |-> <<>>, elements |-> <<>>]


-----------------------------------------------------------------------------
(* Inputs: what clients send and what the two external services answer *)

NameChars == {".", "m", "d", "D"}
SampleNames ==
    { <<"a",".","m","d">>, <<"a",".","P","d","f">>, <<"a",".","e","x","e">>,
      <<"a",".","m","d",".","h","t","m">>, <<"a","m","d">> }
FileNames == SeqsUpTo(NameChars, MaxNameLen) \cup SampleNames
Uploads == {NoFile} \cup {[filename |-> n] : n \in FileNames}

\* Files of a batch request
BatchNames == { <<>>, <<"a",".","m","d">>, <<"b",".","e","x","e">> }
RECURSIVE ListsUpTo(_, _)
ListsUpTo(S, n) ==
    IF n = 0 THEN {<<>>}
    ELSE LET shorter == ListsUpTo(S, n - 1)
         IN  shorter \cup {Append(l, x) : l \in shorter, x \in S}
Batches == ListsUpTo({[filename |-> n] : n \in BatchNames}, MaxFiles)

FormatTags ==
    { Absent, MARKDOWN, JSON, YAML, <<"J","S","O","N">>, <<"Y","a","m","l">>,
      <<"x","m","l">>, <<"j","s","o">>, <<>> }
BatchTags == { Absent, <<"J","S","O","N">>, <<"x","m","l">> }
OcrValues == { Absent, <<"Y","e","s">>, <<"n","o">> }
InlineValues == { Absent, <<"1">>, <<"n","o">> }
IntValues == { Absent, <<"4">>, <<"x">> }
FloatValues == { Absent, <<"0",".","5">>, <<"x">> }
Instructions == { Absent, <<>>, <<"w","h","y">> }

TextChars == {" ", "\n", "a"}
Texts == SeqsUpTo(TextChars, MaxTextLen)

\* converter.convert: a document, or any exception
DocTexts == { <<>>, <<" ">>, <<"a">>, <<"a"," ","a">> }

\* Document texts handed to the serializer on its own
ExportChars == {"a", " ", "\n", "'", "\"", ":", "\\", "#"}
ExportSamples ==
    { <<"a",":"," ","a">>, <<"a"," ","#","a">>, <<"a","\n","\n","a">>,
      <<"a"," ","\n","a">>, <<"a","\n"," ","a">>, <<"n","o">>, <<"4">>, <<"\t">> }
ExportTexts == SeqsUpTo(ExportChars, MaxTextLen) \cup ExportSamples \cup DocTexts
LibFailures ==
    { Raise("ConversionError", <<"File format not allowed">>),
      Raise("ValueError", <<"Input document is not valid">>) }
LibOutcomes == {Return(Document(t)) : t \in DocTexts} \cup LibFailures
BatchLibOutcomes ==
    { Return(Document(<<"a">>)), Raise("ConversionError", <<"File format not allowed">>) }

\* chat.completions.create: a response (well-formed or not), or any exception
Usage(p, c, t) ==
    [present |-> TRUE, prompt_tokens |-> p, completion_tokens |-> c, total_tokens |-> t]
NoUsage == [present |-> FALSE, prompt_tokens |-> 0, completion_tokens |-> 0, total_tokens |-> 0]
Usages == { Usage(10, 5, 15), Usage(3, 4, 9) }
Choice(content, finish_reason) == [content |-> content, finish_reason |-> finish_reason]
Choices == { Choice("SUMMARY", "stop"), Choice("1. a", "length") }
Responses ==
    {[choices |-> <<c>>, model |-> "m", usage |-> u] : c \in Choices, u \in Usages}
    \cup {[choices |-> <<>>, model |-> "m", usage |-> Usage(10, 5, 15)],
          [choices |-> <<Choice("SUMMARY", "stop")>>, model |-> "m", usage |-> NoUsage]}
ChatFailures ==
    { Raise("APIConnectionError", <<"Connection error.">>),
      Raise("AuthenticationError", <<"Error code: 401">>) }
ChatOutcomes == {Return(x) : x \in Responses} \cup ChatFailures

\* Files the page's uploader is given, and the interactions that start a
\* script run: loading the page or changing a setting, choosing a file type,
\* uploading a file of the chosen type (the uploader accepts no other),
\* removing it, the two buttons, and the run st.rerun() asks for
AppFiles == { [name |-> <<"a",".","m","d">>], [name |-> <<"a",".","b",".","p","d","f">>] }
UserEvent(kind, file_type, file) == [kind |-> kind, file_type |-> file_type, file |-> file]
NoEvent == UserEvent("none", "PDF", NoUpload)
UserEvents(fe) ==
    IF fe.rerun THEN { UserEvent("rerun", fe.file_type, NoUpload) }
    ELSE { UserEvent("load", fe.file_type, NoUpload) }
         \cup IF ~fe.rendered THEN {}
              ELSE { UserEvent("select_type", ft, NoUpload) : ft \in DOMAIN SUPPORTED_TYPES }
                   \cup { UserEvent("upload", fe.file_type, f) :
                            f \in { g \in AppFiles :
                                      file_ext(g.name) \in SUPPORTED_TYPES[fe.file_type] } }
                   \cup { UserEvent("remove", fe.file_type, NoUpload) : x \in
                            IF fe.uploaded_file # NoUpload THEN {1} ELSE {} }
                   \cup { UserEvent("start", fe.file_type, NoUpload) : x \in
                            IF fe.start_disabled THEN {} ELSE {1} }
                   \cup { UserEvent("clear", fe.file_type, NoUpload) }
Settings(use_ocr, output_format, start_conversion) ==
    [use_ocr |-> use_ocr, output_format |-> output_format,
     start_conversion |-> start_conversion]
NoSettings == Settings(TRUE, <<>>, FALSE)

\* The constructor's arguments and the two environment variables it reads:
\* not given or unset, empty, set
ApiKeys == { Absent, <<>>, <<"k","e","y">> }
BaseUrls == { Absent, <<>>, << "http://host/v1" >> }
Environ(key, url) == [OPENAI_API_KEY |-> key, MODEL_RUNNER_URL |-> url]
NoEnviron == Environ(Absent, Absent)
Environs == { Environ(k, u) : k \in { Absent, <<>>, <<"e","n","v">> },
                              u \in { Absent, <<>>, << "http://runner/v1" >> } }

\* Parameters of direct TextProcessor calls
TokenLimits == {500, 50}
Temperatures == {7, 0}
Prompts == { Absent, <<>>, <<"p">> }
PointCounts == {5, 4}

-----------------------------------------------------------------------------
(* State *)

Threads == 1..NumThreads

BlankReq ==
    [route |-> "none", file |-> NoFile, files |-> <<>>, output_format |-> Absent,
     use_ocr |-> Absent, inline |-> Absent, max_tokens |-> Absent,
     temperature |-> Absent, num_points |-> Absent, instruction |-> Absent,
     json |-> FALSE, text |-> Absent, custom_prompt |-> Absent,
     event |-> NoEvent, settings |-> NoSettings,
     api_key |-> Absent, base_url |-> Absent, environ |-> NoEnviron]
NoReq == BlankReq
NoResp == NoError
NoConverter == DocumentConverter(FALSE, FALSE, -1)

Init ==
    /\ converters = <<>>
    /\ req = NoReq
    /\ resp = NoResp
    /\ log = <<>>
    /\ tpc = [t \in Threads |-> "idle"]
    /\ targ = [t \in Threads |-> TRUE]
    /\ tret = [t \in Threads |-> NoConverter]
    /\ writes = [k \in BOOLEAN |-> 0]
    /\ program \in {"flask_app", "app"}
    /\ session_state = <<>>
    /\ frontend = [file_type |-> "PDF", uploaded_file |-> NoUpload, start_disabled |-> TRUE,
                   rerun |-> FALSE, rendered |-> FALSE]
    /\ st_cache = <<>>

threadVars == <<tpc, targ, tret>>
appVars == <<program, session_state, frontend, st_cache>>

\* A handler's result becomes the state
Answer(r, h) ==
    /\ program = "flask_app"
    /\ req' = r
    /\ resp' = h.resp
    /\ log' = h.log
    /\ converters' = h.cache
    /\ writes' = [k \in BOOLEAN |-> IF k \in h.stored THEN writes[k] + 1 ELSE writes[k]]
    /\ UNCHANGED <<threadVars, appVars>>

\* A direct call's result becomes the state
Outcome(r, c) ==
    /\ program = "flask_app"
    /\ req' = r
    /\ resp' = c.outcome
    /\ log' = c.log
    /\ UNCHANGED <<converters, writes, threadVars, appVars>>

-----------------------------------------------------------------------------
(* Actions: one per route, one per TextProcessor method, one for the        *)
(* serializer                                                              *)

ApiConvert ==
    /\ req = NoReq
    /\ \E f \in Uploads, fmt \in FormatTags, ocr \in OcrValues, inl \in InlineValues,
          lib \in LibOutcomes :
         LET r == [BlankReq EXCEPT !.route = "/api/convert", !.file = f,
                       !.output_format = fmt, !.use_ocr = ocr, !.inline = inl]
         IN  Answer(r, api_convert(converters, r, lib))

ApiConvertBatch ==
    /\ req = NoReq
    /\ \E fs \in Batches, fmt \in BatchTags, ocr \in OcrValues :
       \E libs \in [1..Len(fs) -> BatchLibOutcomes] :
         LET r == [BlankReq EXCEPT !.route = "/api/convert/batch", !.files = fs,
                       !.output_format = fmt, !.use_ocr = ocr]
         IN  Answer(r, api_convert_batch(converters, r, libs))

ApiSummarize ==
    /\ req = NoReq
    /\ \E f \in Uploads, ocr \in OcrValues, mt \in IntValues, temp \in FloatValues,
          lib \in LibOutcomes, be \in ChatOutcomes :
         LET r == [BlankReq EXCEPT !.route = "/api/summarize", !.file = f,
                       !.use_ocr = ocr, !.max_tokens = mt, !.temperature = temp]
         IN  Answer(r, api_summarize(converters, r, lib, be))

ApiSummarizeText ==
    /\ req = NoReq
    /\ \E j \in BOOLEAN, t \in Texts \cup {Absent}, mt \in IntValues,
          temp \in FloatValues, be \in ChatOutcomes :
         LET r == [BlankReq EXCEPT !.route = "/api/summarize-text", !.json = j,
                       !.text = t, !.max_tokens = mt, !.temperature = temp]
         IN  Answer(r, api_summarize_text(converters, r, be))

ApiExtractKeyPoints ==
    /\ req = NoReq
    /\ \E f \in Uploads, ocr \in OcrValues, np \in IntValues,
          lib \in LibOutcomes, be \in ChatOutcomes :
         LET r == [BlankReq EXCEPT !.route = "/api/extract-key-points", !.file = f,
                       !.use_ocr = ocr, !.num_points = np]
         IN  Answer(r, api_extract_key_points(converters, r, lib, be))

ApiAnalyze ==
    /\ req = NoReq
    /\ \E f \in Uploads, ins \in Instructions, ocr \in OcrValues, mt \in IntValues,
          lib \in LibOutcomes, be \in ChatOutcomes :
         LET r == [BlankReq EXCEPT !.route = "/api/analyze", !.file = f,
                       !.instruction = ins, !.use_ocr = ocr, !.max_tokens = mt]
         IN  Answer(r, api_analyze(converters, r, lib, be))

NewTextProcessor ==
    /\ req = NoReq
    /\ \E k \in ApiKeys, u \in BaseUrls, env \in Environs :
         LET r == [BlankReq EXCEPT !.route = "TextProcessor", !.api_key = k,
                       !.base_url = u, !.environ = env]
         IN  Outcome(r, TextProcessor_init(k, DEFAULT_MODEL, u, env))

CallSummarize ==
    /\ req = NoReq
    /\ \E t \in Texts, mt \in TokenLimits, temp \in Temperatures, cp \in Prompts,
          be \in ChatOutcomes :
         LET r == [BlankReq EXCEPT !.route = "summarize", !.text = t,
                       !.max_tokens = mt, !.temperature = temp, !.custom_prompt = cp]
         IN  Outcome(r, summarize(t, mt, temp, cp, be))

CallExtractKeyPoints ==
    /\ req = NoReq
    /\ \E t \in Texts, np \in PointCounts, mt \in TokenLimits, be \in ChatOutcomes :
         LET r == [BlankReq EXCEPT !.route = "extract_key_points", !.text = t,
                       !.num_points = np, !.max_tokens = mt]
         IN  Outcome(r, extract_key_points(t, np, mt, be))

CallCustomAnalysis ==
    /\ req = NoReq
    /\ \E t \in Texts, ins \in Instructions, mt \in TokenLimits,
          temp \in Temperatures, be \in ChatOutcomes :
         LET r == [BlankReq EXCEPT !.route = "custom_analysis", !.text = t,
                       !.instruction = ins, !.max_tokens = mt, !.temperature = temp]
         IN  Outcome(r, custom_analysis(t, ins, mt, temp, be))

CallFormatOutput ==
    /\ req = NoReq
    /\ \E t \in ExportTexts, fmt \in FormatTags \ {Absent} :
         LET r == [BlankReq EXCEPT !.route = "format_output", !.text = t,
                       !.output_format = fmt]
         IN  Outcome(r, [log |-> <<>>, outcome |-> format_output(Document(t), fmt)])

\* What a script run put on the page
Page(elements) == [status |-> 200, kind |-> "page", body |-> elements]

\* One run of the Streamlit script
AppRun ==
    /\ program = "app"
    /\ req = NoReq
    /\ \E ev \in UserEvents(frontend), use_ocr \in BOOLEAN, fmt \in APP_OUTPUT_FORMATS,
          lib \in LibOutcomes :
         LET settings == Settings(use_ocr, fmt, ev.kind = "start")
             m == main(session_state, st_cache, frontend, ev, settings, lib)
         IN  /\ req' = [BlankReq EXCEPT !.route = "app.main", !.event = ev,
                                        !.settings = settings]
             /\ resp' = Page(m.elements)
             /\ log' = m.log
             /\ session_state' = m.session_state
             /\ frontend' = m.frontend
             /\ st_cache' = m.cache
             /\ UNCHANGED <<converters, writes, threadVars, program>>

\* The response has been sent (the result returned): the request is over
Deliver ==
    /\ req # NoReq
    /\ req' = NoReq
    /\ resp' = NoResp
    /\ log' = <<>>
    /\ UNCHANGED <<converters, writes, threadVars, appVars>>

Next ==
    \/ ApiConvert
    \/ ApiConvertBatch
    \/ ApiSummarize
    \/ ApiSummarizeText
    \/ ApiExtractKeyPoints
    \/ ApiAnalyze
    \/ NewTextProcessor
    \/ CallSummarize
    \/ CallExtractKeyPoints
    \/ CallCustomAnalysis
    \/ CallFormatOutput
    \/ AppRun
    \/ Deliver

Spec == Init /\ [][Next]_vars


-----------------------------------------------------------------------------
(* get_converter under the threaded server (app.run serves each request on  *)
(* its own thread): the membership test, the store and the final read are   *)
(* separate steps of a thread, and other threads run between them           *)

requestVars == <<req, resp, log>>

\* A request thread enters get_converter(use_ocr)
TCall(t) ==
    /\ program = "flask_app"
    /\ tpc[t] = "idle"
    /\ \E use_ocr \in BOOLEAN : targ' = [targ EXCEPT ![t] = use_ocr]
    /\ tpc' = [tpc EXCEPT ![t] = "test"]
    /\ UNCHANGED <<converters, writes, tret, requestVars, appVars>>

\* if use_ocr not in _converters
TTest(t) ==
    /\ tpc[t] = "test"
    /\ tpc' = [tpc EXCEPT ![t] = IF targ[t] \notin DOMAIN converters
                                 THEN "build" ELSE "return"]
    /\ UNCHANGED <<converters, writes, targ, tret, requestVars, appVars>>

\* _converters[use_ocr] = DocumentConverter(...)
TStore(t) ==
    /\ tpc[t] = "build"
    /\ converters' = [k \in DOMAIN converters \cup {targ[t]} |->
                         IF k = targ[t] THEN DocumentConverter(targ[t], FALSE, t)
                         ELSE converters[k]]
    /\ writes' = [writes EXCEPT ![targ[t]] = @ + 1]
    /\ tpc' = [tpc EXCEPT ![t] = "return"]
    /\ UNCHANGED <<targ, tret, requestVars, appVars>>

\* return _converters[use_ocr]
TReturn(t) ==
    /\ tpc[t] = "return"
    /\ tret' = [tret EXCEPT ![t] = converters[targ[t]]]
    /\ tpc' = [tpc EXCEPT ![t] = "idle"]
    /\ UNCHANGED <<converters, writes, targ, requestVars, appVars>>

\* A script thread of the Streamlit server calls the cached get_converter:
\* st.cache_resource looks the arguments up and runs the body on a miss while
\* holding the entry's lock, so the call is one step
StGetConverter(t) ==
    /\ program = "app"
    /\ \E use_ocr \in BOOLEAN :
         LET g == st_get_converter(st_cache, use_ocr)
         IN  /\ st_cache' = g.cache
             /\ targ' = [targ EXCEPT ![t] = use_ocr]
             /\ tret' = [tret EXCEPT ![t] = g.converter]
    /\ UNCHANGED <<converters, writes, tpc, requestVars, program, session_state, frontend>>

NextThreads ==
    \E t \in Threads : TCall(t) \/ TTest(t) \/ TStore(t) \/ TReturn(t) \/ StGetConverter(t)

SpecThreads == Init /\ [][NextThreads]_vars


-----------------------------------------------------------------------------
(* Claims *)

\* A text that is empty or holds whitespace only
Blank(t) == \A i \in 1..Len(t) : t[i] \in Whitespace

\* The filename a logged call is about
EventName(e) == IF e.op = "convert" THEN e.arg.name ELSE e.arg

\* The upload of the request has a filename (possibly empty) whose extension
\* is outside the supported set
UnsupportedUpload ==
    req.file # NoFile /\ file_ext(req.file.filename) \notin SUPPORTED_EXTENSIONS

\* C1 as stated: on /api/convert every filename with an extension outside the
\* supported set is answered with the unsupported-input-format error, and the
\* conversion library is not called.
C1_Original ==
    (req.route = "/api/convert" /\ UnsupportedUpload)
    => /\ resp.kind = "error"
       /\ resp.status = 400
       /\ resp.body = <<"Unsupported file type: .", file_ext(req.file.filename)>>
       /\ Count(log, "convert") = 0

\* C1 amended: on /api/convert every NON-EMPTY filename with an extension
\* outside the supported set is answered 400 "Unsupported file type: .<ext>"
\* and the empty filename is answered 400 "Empty filename"; in both cases the
\* upload is not read and the conversion library is not called.  On every
\* route, each file read or handed to converter.convert has a supported
\* extension.
C1_UnsupportedExtensionRejected ==
    /\ (req.route = "/api/convert" /\ UnsupportedUpload)
       => /\ resp.kind = "error"
          /\ resp.status = 400
          /\ resp.body = IF req.file.filename = <<>>
                         THEN <<"Empty filename">>
                         ELSE <<"Unsupported file type: .", file_ext(req.file.filename)>>
          /\ log = <<>>
    /\ \A i \in DOMAIN log :
          log[i].op \in {"read", "convert"}
          => file_ext(EventName(log[i])) \in SUPPORTED_EXTENSIONS

\* C1 witness: a.exe was uploaded to /api/convert and refused
C1_Witness ==
    /\ req.route = "/api/convert"
    /\ req.file = [filename |-> <<"a",".","e","x","e">>]
    /\ resp.status = 400
    /\ resp.body = <<"Unsupported file type: .", <<"e","x","e">> >>

\* C2: summarize on an empty or whitespace-only text raises the empty-input
\* error and has made no chat-completion call; the same holds where a route
\* hands such a text to summarize.
C2_BlankTextRejected ==
    /\ (req.route = "summarize" /\ Blank(req.text))
       => /\ resp = Raise("ValueError", <<"Text content cannot be empty">>)
          /\ Count(log, "chat") = 0
    /\ (req.route = "/api/summarize-text" /\ req.json /\ req.text # Absent /\ Blank(req.text))
       => /\ resp.status = 400
          /\ Count(log, "chat") = 0
    /\ (req.route = "/api/summarize"
           /\ \E i \in DOMAIN log : /\ log[i].op = "convert"
                                    /\ log[i].arg.outcome.kind = "return"
                                    /\ Blank(log[i].arg.outcome.value.md))
       => /\ resp.kind = "error"
          /\ resp.body = <<"Configuration error: ", <<"Text content cannot be empty">> >>
          /\ Count(log, "chat") = 0

\* C2 witness: summarize was called on a whitespace-only text and raised
C2_Witness ==
    /\ req.route = "summarize"
    /\ req.text = <<" ", "\n">>
    /\ resp.kind = "raise"

\* Batch conversion: the files of the request that fail to convert (an
\* unsupported extension, or converter.convert raising)
BatchFailures ==
    Cardinality({i \in DOMAIN req.files :
                    /\ req.files[i].filename # <<>>
                    /\ file_ext(req.files[i].filename) \notin SUPPORTED_EXTENSIONS})
    + Cardinality({i \in DOMAIN log :
                    log[i].op = "convert" /\ log[i].arg.outcome.kind = "raise"})

\* The error message the one failing file of a batch produced
BatchFailureMessages ==
    {<<"Unsupported file type: .", file_ext(req.files[i].filename)>> :
        i \in {j \in DOMAIN req.files :
                  /\ req.files[j].filename # <<>>
                  /\ file_ext(req.files[j].filename) \notin SUPPORTED_EXTENSIONS}}
    \cup {ExcMsg(log[i].arg.outcome) :
            i \in {j \in DOMAIN log :
                      log[j].op = "convert" /\ log[j].arg.outcome.kind = "raise"}}

\* The files of the batch that have a filename, in request order
RECURSIVE Named(_)
Named(files) ==
    IF files = <<>> THEN <<>>
    ELSE IF Head(files).filename = <<>> THEN Named(Tail(files))
    ELSE <<Head(files)>> \o Named(Tail(files))

BatchAnswered(files) ==
    /\ resp.status = 200
    /\ Len(resp.body.results) = Len(files)
    /\ resp.body.total = Len(files)
    /\ \A i \in 1..Len(files) :
          resp.body.results[i].original_filename = files[i].filename
    /\ Cardinality({i \in DOMAIN resp.body.results :
                       ~resp.body.results[i].success}) = 1
    /\ \A i \in DOMAIN resp.body.results :
          ~resp.body.results[i].success
          => {resp.body.results[i].error} = BatchFailureMessages

C4_Original == \A k \in BOOLEAN : writes[k] <= 1

HttpRoutes ==
    { "/api/convert", "/api/convert/batch", "/api/summarize", "/api/summarize-text",
      "/api/extract-key-points", "/api/analyze" }

\* A call to the conversion library or the chat backend failed: it raised, or
\* the response lacked choices or usage
CallFailed(o) ==
    o.kind = "raise" \/ o.value.choices = <<>> \/ ~o.value.usage.present
ExternalFailure ==
    \E i \in DOMAIN log :
        \/ log[i].op = "convert" /\ log[i].arg.outcome.kind = "raise"
        \/ log[i].op = "chat" /\ CallFailed(log[i].arg.outcome)

\* C5 as stated: on every route a failed request is answered 5xx when the
\* conversion library or the chat backend failed, and 4xx otherwise (the
\* failure then lies in the client's input: file, extension, format tag,
\* instruction, text, numeric parameter).
C5_Original ==
    (req.route \in HttpRoutes /\ resp.kind \in {"error", "unhandled"})
    => IF ExternalFailure THEN resp.status \in 500..599 ELSE resp.status \in 400..499

\* C6: an /api/analyze request without an instruction is answered 400 by the
\* route before the upload is read and before any library or backend call;
\* custom_analysis itself rejects nothing: called with any instruction, None
\* included, it makes its chat-completion call.
C6_MissingInstructionRejected ==
    /\ (req.route = "/api/analyze" /\ req.instruction = Absent)
       => /\ resp.kind = "error"
          /\ resp.status = 400
          /\ resp.body \in { <<"No file provided">>, <<"Analysis instruction is required">> }
          /\ log = <<>>
    /\ req.route = "custom_analysis" => Count(log, "chat") = 1

\* C6 witness: a file was uploaded to /api/analyze without an instruction
C6_Witness ==
    /\ req.route = "/api/analyze"
    /\ req.file = [filename |-> <<"a",".","m","d">>]
    /\ req.instruction = Absent
    /\ resp.body = <<"Analysis instruction is required">>

\* C7 as stated: format_output succeeds for the three strings markdown, json,
\* yaml and raises the unsupported-output-format error for every other tag.
C7_Original ==
    req.route = "format_output"
    => IF req.output_format \in OUTPUT_FORMATS
       THEN resp.kind = "return"
       ELSE resp.kind = "raise" /\ ExcType(resp) = "ValueError"

\* C7 amended: format_output succeeds for every tag whose LOWER-CASED form is
\* markdown, json or yaml (so also for JSON, Yaml) and raises the
\* unsupported-output-format error, returning no payload, for every other tag;
\* /api/convert applies the same test to the form field before reading the
\* upload.
C7_UnsupportedFormatRejected ==
    /\ req.route = "format_output"
       => IF lower(req.output_format) \in OUTPUT_FORMATS
          THEN resp.kind = "return" /\ Len(resp.value) = 3
          ELSE resp = Raise("ValueError",
                            <<"Unsupported output format: ", lower(req.output_format)>>)
    /\ (req.route = "/api/convert" /\ req.file # NoFile /\ ~UnsupportedUpload
           /\ req.output_format # Absent)
       => IF lower(req.output_format) \in OUTPUT_FORMATS
          THEN Count(log, "convert") = 1
          ELSE /\ resp.kind = "error"
               /\ resp.status = 400
               /\ resp.body = <<"Unsupported output format: ", lower(req.output_format)>>
               /\ log = <<>>

\* C7 witness: format_output was called with the tag xml and raised
C7_Witness ==
    /\ req.route = "format_output"
    /\ req.output_format = <<"x","m","l">>
    /\ resp.kind = "raise"

\* C8: when the chat-completion call of summarize fails (it raises, or the
\* response has no choices or no usage), summarize raises RuntimeError "Failed
\* to generate summary: " followed by the original message, and that call is
\* the only one made.
C8_BackendFailureWrapped ==
    (req.route = "summarize" /\ \E i \in DOMAIN log : CallFailed(log[i].arg.outcome))
    => /\ Len(log) = 1
       /\ log[1].op = "chat"
       /\ resp.kind = "raise"
       /\ ExcType(resp) = "RuntimeError"
       /\ ExcMsg(resp)[1] = "Failed to generate summary: "
       /\ LET o == log[1].arg.outcome
          IN  ExcMsg(resp)[2] =
                 IF o.kind = "raise" THEN o.exc[2]
                 ELSE IF o.value.choices = <<>> THEN <<"list index out of range">>
                 ELSE <<"'NoneType' object has no attribute 'prompt_tokens'">>

\* C8 witness: the backend refused the connection and summarize raised
C8_Witness ==
    /\ req.route = "summarize"
    /\ Len(log) = 1
    /\ log[1].arg.outcome = Raise("APIConnectionError", <<"Connection error.">>)
    /\ resp.kind = "raise"

\* The one chat-completion call of a summarize invocation, given the system
\* content it must carry
SummarizeCallIs(system) ==
    /\ Len(log) = 1
    /\ log[1].op = "chat"
    /\ log[1].arg.messages =
          << [role |-> "system", content |-> system],
             [role |-> "user",
              content |-> <<"Please summarize the following text:\n\n", req.text>>] >>

\* C9 as stated: summarize on a non-blank text makes exactly one call with the
\* messages system, user; the system content is the caller's override when one
\* is given (custom_prompt is not None) and the default otherwise.
C9_Original ==
    (req.route = "summarize" /\ ~Blank(req.text))
    => SummarizeCallIs(IF req.custom_prompt # Absent
                       THEN req.custom_prompt ELSE DEFAULT_SYSTEM_PROMPT)

\* C9 amended: as stated, except that the system content is the caller's
\* override only when a NON-EMPTY one is given; with None or the empty string
\* it is the default instruction.
C9_SingleTwoMessageCall ==
    (req.route = "summarize" /\ ~Blank(req.text))
    => SummarizeCallIs(IF req.custom_prompt \notin {Absent, <<>>}
                       THEN req.custom_prompt ELSE DEFAULT_SYSTEM_PROMPT)

\* C9 witness: summarize was called with an override and sent it
C9_Witness ==
    /\ req.route = "summarize"
    /\ req.text = <<"a">>
    /\ req.custom_prompt = <<"p">>
    /\ Len(log) = 1
    /\ log[1].arg.messages[1].content = <<"p">>

\* C10: every successful result of summarize, extract_key_points and
\* custom_analysis has a tokens_used record with exactly the fields prompt,
\* completion, total, each equal to the usage value the backend reported.
C10_TokenUsageVerbatim ==
    (req.route \in {"summarize", "extract_key_points", "custom_analysis"}
        /\ resp.kind = "return")
    => /\ Len(log) = 1
       /\ DOMAIN resp.value.tokens_used = {"prompt", "completion", "total"}
       /\ LET usage == log[1].arg.outcome.value.usage
          IN  /\ usage.present
              /\ resp.value.tokens_used.prompt = usage.prompt_tokens
              /\ resp.value.tokens_used.completion = usage.completion_tokens
              /\ resp.value.tokens_used.total = usage.total_tokens

\* C10 witness: extract_key_points returned the usage 3/4/9 it was given
C10_Witness ==
    /\ req.route = "extract_key_points"
    /\ resp.kind = "return"
    /\ resp.value.tokens_used = [prompt |-> 3, completion |-> 4, total |-> 9]

\* A chat-completion response with a reply and a usage record
WellFormed(o) == o.kind = "return" /\ o.value.choices # <<>> /\ o.value.usage.present

\* C11: for every backend response {content, model, usage, finish_reason},
\* summarize on a non-blank text returns exactly the record {summary: content,
\* model: model, tokens_used: {prompt, completion, total}, finish_reason:
\* finish_reason}, with no field added and none missing.
C11_SummarizeResultExact ==
    (req.route = "summarize" /\ ~Blank(req.text) /\ Len(log) = 1
        /\ WellFormed(log[1].arg.outcome))
    => LET response == log[1].arg.outcome.value
       IN  /\ resp.kind = "return"
           /\ DOMAIN resp.value = {"summary", "model", "tokens_used", "finish_reason"}
           /\ resp.value.summary = response.choices[1].content
           /\ resp.value.model = response.model
           /\ resp.value.tokens_used =
                  [prompt |-> response.usage.prompt_tokens,
                   completion |-> response.usage.completion_tokens,
                   total |-> response.usage.total_tokens]
           /\ resp.value.finish_reason = response.choices[1].finish_reason

\* C11 witness: the backend answered "1. a" with finish reason length and
\* usage 10/5/15, and summarize returned exactly that
C11_Witness ==
    /\ req.route = "summarize"
    /\ resp.kind = "return"
    /\ resp.value = [summary |-> "1. a", model |-> "m",
                     tokens_used |-> [prompt |-> 10, completion |-> 5, total |-> 15],
                     finish_reason |-> "length"]

\* The result of a successful extract_key_points call carries the reply
KeyPointsAreReply ==
    resp.value.key_points = log[1].arg.outcome.value.choices[1].content

\* C12 as stated: for every backend response, extract_key_points returns the
\* reply content as key_points and a tokens_used.total equal to the sum of
\* the prompt and completion counts the backend reported.
C12_Original ==
    (req.route = "extract_key_points" /\ resp.kind = "return")
    => /\ KeyPointsAreReply
       /\ LET usage == log[1].arg.outcome.value.usage
          IN  resp.value.tokens_used.total
                 = usage.prompt_tokens + usage.completion_tokens

\* C12 amended: for every backend response, extract_key_points returns the
\* reply content as key_points and a tokens_used.total equal to THE TOTAL THE
\* BACKEND REPORTED, whether or not that is the sum of the two counts.
C12_KeyPointsResult ==
    (req.route = "extract_key_points" /\ resp.kind = "return")
    => /\ KeyPointsAreReply
       /\ LET usage == log[1].arg.outcome.value.usage
          IN  resp.value.tokens_used.total = usage.total_tokens

\* C12 witness: extract_key_points with num_points = 4 returned the reply and
\* the usage total 15 = 10 + 5
C12_Witness ==
    /\ req.route = "extract_key_points"
    /\ req.num_points = 4
    /\ resp.kind = "return"
    /\ resp.value.key_points = "1. a"
    /\ resp.value.tokens_used.total = 15

IsConvert(e) == e.op = "convert"
\* The calls of converter.convert made for the request, in order
ConvertCalls == SelectSeq(log, IsConvert)
ConvertFailed == \E i \in DOMAIN log : IsConvert(log[i]) /\ log[i].arg.outcome.kind = "raise"

\* A batch entry of a file that was handed to the library
Attempted(entry) == file_ext(entry.original_filename) \in SUPPORTED_EXTENSIONS

\* C13: when converter.convert fails, it has been called exactly once for
\* that file (no retry) and the failure is reported with the library's own
\* message: /api/convert answers 500 {"error": message}; the batch route
\* calls convert once per file it attempts and the entry of each failing file
\* carries success=false and its message; the summarize, key-point and
\* analysis routes answer with an error that carries the message; the
\* Streamlit process_document shows "Error during conversion of <name>:
\* <message>" and yields no result.
C13_ConversionFailureReported ==
    /\ (req.route = "/api/convert" /\ ConvertFailed)
       => /\ Len(ConvertCalls) = 1
          /\ resp = ErrorResponse(500, ExcMsg(ConvertCalls[1].arg.outcome))
    /\ (req.route = "/api/convert/batch" /\ resp.kind = "json")
       => LET attempts == SelectSeq(resp.body.results, Attempted)
          IN  /\ Len(ConvertCalls) = Len(attempts)
              /\ \A k \in 1..Len(attempts) :
                    /\ ConvertCalls[k].arg.name = attempts[k].original_filename
                    /\ ConvertCalls[k].arg.outcome.kind = "raise"
                       => /\ ~attempts[k].success
                          /\ attempts[k].error = ExcMsg(ConvertCalls[k].arg.outcome)
    /\ (req.route \in {"/api/summarize", "/api/extract-key-points", "/api/analyze"}
           /\ ConvertFailed)
       => /\ Len(ConvertCalls) = 1
          /\ Count(log, "chat") = 0
          /\ resp.kind = "error"
          /\ resp.body \in { ExcMsg(ConvertCalls[1].arg.outcome),
                             <<"Configuration error: ", ExcMsg(ConvertCalls[1].arg.outcome)>> }
    /\ (req.route = "app.main" /\ ConvertFailed)
       => /\ Len(ConvertCalls) = 1
          /\ resp.body = << Element("error",
                                    <<"Error during conversion of ",
                                      ConvertCalls[1].arg.name, ": ",
                                      ExcMsg(ConvertCalls[1].arg.outcome)>>) >>

\* C13 witness: the library refused the upload of /api/convert and the route
\* answered 500 with the library's message
C13_Witness ==
    /\ req.route = "/api/convert"
    /\ Len(log) = 3
    /\ log[3].arg.outcome = Raise("ConversionError", <<"File format not allowed">>)
    /\ resp = ErrorResponse(500, <<"File format not allowed">>)

\* Converter c was built for OCR flag k: OCR on exactly when k, no tables
ConfiguredFor(c, k) == c.do_ocr = k /\ c.do_table_structure = FALSE

\* Thread t has completed a get_converter call and started no other
Returned(t) == tpc[t] = "idle" /\ tret[t] # NoConverter
\* Thread t has never called get_converter
NeverCalled(t) == tpc[t] = "idle" /\ tret[t] = NoConverter

\* C14: under every interleaving of get_converter calls, each converter in
\* the cache under key k (the Flask module's dict, the Streamlit resource
\* cache) was built with OCR on exactly when k is true and with
\* table-structure inference off, and the converter a call get_converter(k)
\* returned has that configuration; when one thread makes all the calls (they
\* are sequential), each key is stored at most once and every call returns
\* the object the cache holds.
C14_ConverterConfiguration ==
    /\ \A k \in DOMAIN converters : ConfiguredFor(converters[k], k)
    /\ \A k \in DOMAIN st_cache : ConfiguredFor(st_cache[k], k)
    /\ \A t \in Threads : Returned(t) => ConfiguredFor(tret[t], targ[t])
    /\ \A t \in Threads :
          (\A u \in Threads \ {t} : NeverCalled(u))
          => /\ \A k \in BOOLEAN : writes[k] <= 1
             /\ Returned(t)
                => tret[t] = IF program = "app" THEN st_cache[targ[t]]
                             ELSE converters[targ[t]]

\* C14 witness: two threads raced on key true, the entry was stored twice,
\* and both calls have returned
C14_Witness ==
    /\ writes[TRUE] = 2
    /\ \A t \in Threads : Returned(t) /\ targ[t] = TRUE

\* The page of a script run shows a converted document: success, the
\* download link, the preview heading, the preview
Converted == req.route = "app.main" /\ Len(resp.body) = 4

ExtensionOf(tag) == IF tag = MARKDOWN THEN <<"m","d">> ELSE tag
MimeTypeOf(tag) ==
    CASE tag = MARKDOWN -> "text/markdown"
      [] tag = JSON     -> "application/json"
      [] tag = YAML     -> "text/yaml"

\* The content that corresponds to a format tag: the exported text, or the
\* JSON (indented or on one line) or YAML encoding of the exported tree
ContentsOf(doc, tag) ==
    CASE tag = MARKDOWN -> { export_to_markdown(doc) }
      [] tag = JSON     -> { json_dumps(export_to_dict(doc)),
                             json_dumps_compact(export_to_dict(doc)) }
      [] tag = YAML     -> { yaml_safe_dump(export_to_dict(doc)) }

\* The document converter.convert returned for the request
ConvertedDocument == ConvertCalls[1].arg.outcome.value

\* The payloads of the HTTP service: the tuple format_output returns, the
\* inline and the attachment response of /api/convert, the entries of a
\* batch response
ServicePayloads ==
    /\ (req.route = "format_output" /\ resp.kind = "return")
       => LET tag == lower(req.output_format)
          IN  /\ tag \in OUTPUT_FORMATS
              /\ resp.value[1] \in ContentsOf(Document(req.text), tag)
              /\ resp.value[2] = MimeTypeOf(tag)
              /\ resp.value[3] = ExtensionOf(tag)
    /\ (req.route = "/api/convert" /\ resp.kind = "json")
       => /\ resp.body.format \in OUTPUT_FORMATS
          /\ resp.body.filename[3] = ExtensionOf(resp.body.format)
          /\ resp.body.content \in ContentsOf(ConvertedDocument, resp.body.format)
    /\ (req.route = "/api/convert" /\ resp.kind = "file")
       => \E tag \in OUTPUT_FORMATS :
             /\ tag = lower(form_get(req.output_format, MARKDOWN))
             /\ resp.body.mimetype = MimeTypeOf(tag)
             /\ resp.body.download_name[3] = ExtensionOf(tag)
             /\ resp.body.content \in ContentsOf(ConvertedDocument, tag)
    /\ (req.route = "/api/convert/batch" /\ resp.kind = "json")
       => \A i \in DOMAIN resp.body.results :
             resp.body.results[i].success
             => /\ resp.body.results[i].format \in OUTPUT_FORMATS
                /\ resp.body.results[i].filename[3]
                      = ExtensionOf(resp.body.results[i].format)

\* C17 as stated: every payload of a successful serialization or conversion,
\* the Streamlit page's included, has a format tag that is exactly one of
\* markdown, json, yaml, and the extension and MIME type of that tag.
C17_Original ==
    /\ ServicePayloads
    /\ Converted
       => /\ req.settings.output_format \in OUTPUT_FORMATS
          /\ resp.body[2].arg.download[3] = ExtensionOf(req.settings.output_format)
          /\ resp.body[2].arg.mimetype = MimeTypeOf(req.settings.output_format)

\* C17 amended: every payload format_output returns or the HTTP service
\* sends for a successful conversion has a format tag that is exactly one of
\* markdown, json, yaml, and the extension and MIME type of that tag
\* (markdown: md / text/markdown, json: json / application/json, yaml: yaml /
\* text/yaml); ON THE STREAMLIT PAGE THE TAG IS ONE OF Markdown, JSON, YAML,
\* THE EXTENSION IS THAT OF THE LOWER-CASED TAG, AND THE DOWNLOAD LINK'S MEDIA
\* TYPE IS application/octet-stream FOR ALL THREE.  Everywhere markdown
\* content is the exported text and json/yaml content is the encoding of the
\* exported key-value tree.
C17_PayloadMatchesTag ==
    /\ ServicePayloads
    /\ Converted
       => LET tag == lower(req.settings.output_format)
          IN  /\ req.settings.output_format \in APP_OUTPUT_FORMATS
              /\ tag \in OUTPUT_FORMATS
              /\ resp.body[2].arg.download[3] = ExtensionOf(tag)
              /\ resp.body[2].arg.mimetype = "application/octet-stream"
              /\ resp.body[2].arg.data \in ContentsOf(ConvertedDocument, tag)

\* C17 witness: /api/convert sent a.md converted to YAML as an attachment of
\* type text/yaml named a.yaml
C17_Witness ==
    /\ req.route = "/api/convert"
    /\ resp.kind = "file"
    /\ resp.body.mimetype = "text/yaml"
    /\ resp.body.download_name = << <<"a">>, ".", YAML >>

\* C18: for every constructor argument api_key (not given, empty, set) and
\* every value of OPENAI_API_KEY (unset, empty, set), the key handed to the
\* OpenAI client is a non-empty string: the argument if it is non-empty, else
\* the variable's value if that is non-empty, else "not-needed".
C18_ApiKeyNeverEmpty ==
    req.route = "TextProcessor"
    => /\ Len(log) = 1
       /\ log[1].op = "OpenAI"
       /\ LET key == log[1].arg.api_key
              env == req.environ.OPENAI_API_KEY
          IN  /\ key \notin {Absent, <<>>}
              /\ key = IF req.api_key \notin {Absent, <<>>} THEN req.api_key
                       ELSE IF env \notin {Absent, <<>>} THEN env
                       ELSE <<"n","o","t","-","n","e","e","d","e","d">>
              /\ resp.value.api_key = key

\* C18 witness: the argument and the variable were both the empty string and
\* the client was given the placeholder
C18_Witness ==
    /\ req.route = "TextProcessor"
    /\ req.api_key = <<>>
    /\ req.environ.OPENAI_API_KEY = <<>>
    /\ log[1].arg.api_key = <<"n","o","t","-","n","e","e","d","e","d">>

\* The calls of the chat-completion endpoint made for the request, in order
IsChat(e) == e.op = "chat"
ChatCalls == SelectSeq(log, IsChat)

\* The one chat-completion call of a key-point extraction for n points: the
\* system instruction names n, the temperature is 0.5 (5 tenths)
KeyPointsCallIs(n) ==
    /\ Len(ChatCalls) = 1
    /\ ChatCalls[1].arg.temperature = 5
    /\ Len(ChatCalls[1].arg.messages) = 2
    /\ ChatCalls[1].arg.messages[1].role = "system"
    /\ ChatCalls[1].arg.messages[1].content[1] = "Extract the "
    /\ ChatCalls[1].arg.messages[1].content[2] = n
    /\ ChatCalls[1].arg.messages[2].role = "user"

\* C19: every extract_key_points invocation makes exactly one
\* chat-completion call, with temperature 0.5 and a system instruction that
\* names the requested num_points (also when the /api/extract-key-points
\* route makes the invocation, with the num_points of the form); when the
\* call fails, extract_key_points raises RuntimeError "Failed to extract key
\* points: " followed by the original message, having made no other call.
C19_KeyPointsSingleCall ==
    /\ req.route = "extract_key_points"
       => /\ Len(log) = 1
          /\ KeyPointsCallIs(req.num_points)
          /\ ChatCalls[1].arg.messages[2].content = req.text
          /\ CallFailed(ChatCalls[1].arg.outcome)
             => /\ resp.kind = "raise"
                /\ ExcType(resp) = "RuntimeError"
                /\ ExcMsg(resp) = << "Failed to extract key points: ",
                                     CaughtMsg(ChatCalls[1].arg.outcome) >>
    /\ (req.route = "/api/extract-key-points" /\ ChatCalls # <<>>)
       => /\ KeyPointsCallIs(IF req.num_points = Absent THEN 5 ELSE IntVal(req.num_points))
          /\ CallFailed(ChatCalls[1].arg.outcome)
             => resp = ErrorResponse(500, << "Failed to extract key points: ",
                                            CaughtMsg(ChatCalls[1].arg.outcome) >>)

\* C19 witness: extract_key_points was called for 4 points with a token
\* limit of 50, the backend refused the credentials, and the call raised
C19_Witness ==
    /\ req.route = "extract_key_points"
    /\ req.num_points = 4
    /\ req.max_tokens = 50
    /\ Len(log) = 1
    /\ log[1].arg.temperature = 5
    /\ log[1].arg.outcome = Raise("AuthenticationError", <<"Error code: 401">>)
    /\ resp = Raise("RuntimeError",
                    << "Failed to extract key points: ", <<"Error code: 401">> >>)

\* C20 as stated: every error that arises while a route, the Streamlit run
\* or a TextProcessor operation handles a request is handed back to the
\* caller as an error value (for a route the JSON envelope {"error":
\* message}); no exception leaves a route, and no external call is made a
\* second time.
C20_Original ==
    /\ req.route \in HttpRoutes
       => /\ resp.kind \in {"json", "file", "error"}
          /\ ExternalFailure /\ req.route # "/api/convert/batch" => resp.kind = "error"
          /\ req.route # "/api/convert/batch"
             => Len(ConvertCalls) <= 1 /\ Len(ChatCalls) <= 1
    /\ req.route = "app.main"
       => /\ resp.kind = "page"
          /\ Len(ConvertCalls) <= 1
    /\ req.route \in {"summarize", "extract_key_points", "custom_analysis"}
       => Len(log) <= 1

\* The checks of /api/convert that request r fails, in the order the route
\* applies them: 1 the file part is missing, 2 its filename is empty, 3 its
\* extension is unsupported, 4 the output format is unsupported
FailedChecks(r) ==
    {n \in 1..4 :
        \/ n = 1 /\ r.file = NoFile
        \/ n = 2 /\ r.file # NoFile /\ r.file.filename = <<>>
        \/ n = 3 /\ r.file # NoFile
                 /\ file_ext(r.file.filename) \notin SUPPORTED_EXTENSIONS
        \/ n = 4 /\ lower(form_get(r.output_format, MARKDOWN)) \notin OUTPUT_FORMATS}

FirstFailed(r) == CHOOSE n \in FailedChecks(r) : \A m \in FailedChecks(r) : n <= m

\* The message of each check
ValidationMessage(r, n) ==
    CASE n = 1 -> <<"No file provided">>
      [] n = 2 -> <<"Empty filename">>
      [] n = 3 -> <<"Unsupported file type: .", file_ext(r.file.filename)>>
      [] n = 4 -> <<"Unsupported output format: ",
                    lower(form_get(r.output_format, MARKDOWN))>>

\* C21: a request to /api/convert that fails validation (no file, empty
\* filename, unsupported extension, unsupported output format) is answered 400
\* with the message of the FIRST check it fails, in that order; the upload is
\* not read, get_converter and converter.convert are not called, and the
\* converter cache is the same after the request as before it.
C21_RejectedRequestFrame ==
    /\ [](req.route = "/api/convert" /\ FailedChecks(req) # {}
           => /\ resp = ErrorResponse(400, ValidationMessage(req, FirstFailed(req)))
              /\ log = <<>>)
    /\ [][req'.route = "/api/convert" /\ req' # req /\ FailedChecks(req') # {}
           => converters' = converters /\ writes' = writes]_vars

\* C21 witness: with a converter already cached, a request without a file and
\* with the unsupported tag xml was refused for the missing file
C21_Witness ==
    /\ req.route = "/api/convert"
    /\ req.file = NoFile
    /\ req.output_format = <<"x","m","l">>
    /\ Cardinality(FailedChecks(req)) > 1
    /\ resp = ErrorResponse(400, <<"No file provided">>)
    /\ DOMAIN converters # {}

\* The text of the request is empty or holds white space only
BlankText == strip(req.text) = <<>>

\* The text inside the user message of the one chat call: the whole message
\* for extract_key_points, what follows "Text:" for custom_analysis
SentText ==
    LET content == ChatCalls[1].arg.messages[2].content
    IN  IF req.route = "custom_analysis" THEN content[3] ELSE content

\* C22: only summarize rejects a blank text.  extract_key_points and
\* custom_analysis validate nothing: for every text, the empty and the
\* whitespace-only ones included, each makes exactly one chat-completion call
\* that carries the text as given, and fails only when that call failed;
\* summarize on a blank text raises ValueError and makes no call.
C22_BlankCheckOnlyInSummarize ==
    /\ req.route \in {"extract_key_points", "custom_analysis"}
       => /\ Len(log) = 1
          /\ Len(ChatCalls) = 1
          /\ SentText = req.text
          /\ resp.kind = "raise" <=> CallFailed(ChatCalls[1].arg.outcome)
          /\ resp.kind = "raise" => ExcType(resp) = "RuntimeError"
    /\ (req.route = "summarize" /\ BlankText)
       => /\ log = <<>>
          /\ ExcType(resp) = "ValueError"

\* C22 witness: custom_analysis was called on a text of one blank, asked the
\* backend once and returned its answer
C22_Witness ==
    /\ req.route = "custom_analysis"
    /\ req.text = <<" ">>
    /\ BlankText
    /\ Len(ChatCalls) = 1
    /\ SentText = <<" ">>
    /\ resp.kind = "return"

\* The script run that has just ended called process_document
ProcessDocumentInvoked == Count(log, "get_converter") > 0 \/ Count(log, "convert") > 0

\* C23: in the Streamlit application, over every sequence of script runs
\* (page loads, type selections, uploads, removals, Start Conversion, Clear
\* and the reruns Clear asks for): process_document is invoked only in a run
\* that the Start Conversion click started and in which
\* session_state.current_file is not None, and it is given that file; a run
\* that the Clear click started leaves current_file and conversion_result
\* None, starts no conversion and ends by asking for a rerun; and
\* session_state.conversion_result, once a run has initialised it, is None
\* in every state.
C23_SessionStateInvariants ==
    /\ (req.route = "app.main" /\ ProcessDocumentInvoked)
       => /\ req.event.kind = "start"
          /\ req.settings.start_conversion
          /\ session_state.current_file # NoUpload
          /\ Args(log, "read") = {session_state.current_file.name}
    /\ (req.route = "app.main" /\ req.event.kind = "clear")
       => /\ session_state.current_file = NoUpload
          /\ session_state.conversion_result = None
          /\ ~ProcessDocumentInvoked
          /\ resp = Page(<<>>)
          /\ frontend.rerun
    /\ "conversion_result" \in DOMAIN session_state
       => session_state.conversion_result = None
    /\ frontend.rendered
       => {"current_file", "conversion_result"} \subseteq DOMAIN session_state

\* C23 witness: a file was uploaded and converted (the converter is cached),
\* and the run that has just ended is the one the Clear click started
C23_Witness ==
    /\ req.route = "app.main"
    /\ req.event.kind = "clear"
    /\ frontend.uploaded_file # NoUpload
    /\ DOMAIN st_cache # {}
    /\ session_state.current_file = NoUpload
    /\ session_state.conversion_result = None

=============================================================================
